---- MODULE Spec2Model ----
(***************************************************************************)
(* Verification model of the NewsGroupingApp core: the relational store    *)
(* (groups and group memberships), the incremental grouping coordinator    *)
(* (two_phase_grouping.py), the similarity scorer (enhanced_grouping.py)   *)
(* and the group merger (group_merging.py).                                *)
(*                                                                         *)
(* Scores, thresholds and adjustments are fixed-point numbers in units of  *)
(* 1/10000 (SCALE = 1.0).  Relevance values are in units of 1/10.          *)
(***************************************************************************)
EXTENDS Integers, Sequences, FiniteSets, Bags, TLC

VARIABLES
    \* ---- the store (SQLite tables) ----
    groups,               \* two_phase_article_groups: group_id -> row
    memberships,          \* two_phase_article_group_memberships: set of <<article_id, group_id>>
    nextGroupId,          \* AUTOINCREMENT sequence of two_phase_article_groups
    articles,             \* articles: ids of the rows of the table
    empty_content,        \* ids of the articles whose content column is empty
    \* ---- the pipeline position ----
    phase,                \* "idle" | "grouping" | "grouped" | "merging"
    \* ---- run_grouping_update locals ----
    cache,                \* existing_groups_with_signatures
    queue,                \* remaining rows of ungrouped_df
    last,                 \* result of the last process_single_ungrouped_article call
    \* ---- merge_similar_groups locals ----
    merge_list,           \* groups_with_signatures (snapshot taken at the start of the pass)
    mi, mj,               \* loop indices i and j
    processed_group_ids,  \* ids marked as processed in this pass
    merged_pairs_count,   \* merged_pairs_count
    merge_errors,         \* errors
    merged_log,           \* <<survivor, deleted>> of every "Successfully merged" line of this pass
    \* ---- pure-function harnesses ----
    d_in, d_out,          \* decision logic: inputs and result
    s_in, s_out,          \* similarity scorer: inputs and result
    \* ---- the store: entity tables ----
    entity_profiles,      \* entity_profiles: entity_id -> row
    nextEntityId,         \* AUTOINCREMENT sequence of entity_profiles
    article_entities,     \* article_entities: bag of rows <<article_id, entity_id>>
    \* ---- extract_entities_for_all_articles ----
    enrich_pc,            \* "idle" | "running"
    enrich_queue,         \* articles of the run not yet sent in a batch
    enrich_runs,          \* number of runs that returned
    enrich_before,        \* row count and article selection at the start of the run
    \* ---- the store: trend tables ----
    trending_groups,      \* trending_groups: trend_id -> row
    nextTrendId,          \* AUTOINCREMENT sequence of trending_groups
    trending_group_memberships, \* rows <<article_id, trend_id>>
    trend_entities,       \* rows <<trend_id, entity_id>>
    \* ---- trend synthesis ----
    now,                  \* the clock, in hours
    trend_step,           \* run_trending_analysis: 0 idle, i category i is next, last+1 the floor is next
    trend_last,           \* what the last trend operation was given and did
    \* ---- the orchestrator (main) ----
    orch_pc,              \* "initial" | "sleeping" | "running" | "backoff" | "stopped"
    orch_log,             \* what happened in the latest runs, newest last
    orch_stop,            \* why the process ended: "none" | "interrupt" | "exception"
    \* ---- one run of run_scrapers_and_analysis ----
    tick_pc,              \* "idle" | "setup" | "scraping" | "migrating" | "enrichment" | "grouping" | "merging" | "trends"
    scr_started,          \* number of scraper tasks a pool worker has taken so far
    scr_running,          \* scraper tasks taken and not finished
    \* ---- concurrent calls of ensure_minimum_trends ----
    floor_pc,             \* per caller: "idle" | "counted" | "selected" | "done"
    floor_local           \* per caller: min_count, needed_count, groups_to_use, promoted groups

storeVars  == <<groups, memberships, nextGroupId, articles, empty_content>>
groupVars  == <<cache, queue, last>>
mergeVars  == <<merge_list, mi, mj, processed_group_ids, merged_pairs_count, merge_errors, merged_log>>
decideVars == <<d_in, d_out>>
scoreVars  == <<s_in, s_out>>
vars == <<groups, memberships, nextGroupId, articles, empty_content, phase, cache, queue, last,
          merge_list, mi, mj, processed_group_ids, merged_pairs_count, merge_errors,
          merged_log, d_in, d_out, s_in, s_out,
          entity_profiles, nextEntityId, article_entities,
          enrich_pc, enrich_queue, enrich_runs, enrich_before,
          trending_groups, nextTrendId, trending_group_memberships,
          trend_entities, now, trend_step, trend_last,
          orch_pc, orch_log, orch_stop, tick_pc, scr_started, scr_running,
          floor_pc, floor_local>>

entityVars == <<entity_profiles, nextEntityId, article_entities>>
enrichVars == <<enrich_pc, enrich_queue, enrich_runs, enrich_before>>
trendTables == <<trending_groups, nextTrendId, trending_group_memberships, trend_entities>>
trendVars == <<trendTables, now, trend_step, trend_last>>
tickVars == <<tick_pc, scr_started, scr_running>>
floorVars == <<floor_pc, floor_local>>
orchVars == <<orch_pc, orch_log, orch_stop, tickVars, floorVars>>
extVars == <<entityVars, enrichVars, trendVars, orchVars>>

NoSnapshot == [count |-> 0, selected |-> {}]

\* the entity tables after setup_database and no enrichment run under way
InitEntityTables ==
    /\ entity_profiles = << >>
    /\ nextEntityId = 1
    /\ article_entities = EmptyBag

InitEnrichIdle ==
    /\ enrich_pc = "idle"
    /\ enrich_queue = {}
    /\ enrich_runs = 0
    /\ enrich_before = NoSnapshot

NoTrendOp == [op |-> "none"]

\* the trend tables after setup_database and no trend operation yet
InitTrendTables ==
    /\ trending_groups = << >>
    /\ nextTrendId = 1
    /\ trending_group_memberships = {}
    /\ trend_entities = {}

InitTrendIdle ==
    /\ now = 0
    /\ trend_step = 0
    /\ trend_last = NoTrendOp

\* main() about to make its first run
InitOrchestrator ==
    /\ orch_pc = "initial"
    /\ orch_log = <<>>
    /\ orch_stop = "none"
    /\ tick_pc = "idle"
    /\ scr_started = 0
    /\ scr_running = {}

\* the callers of ensure_minimum_trends that can run at the same time: a
\* /api/trending request of the web process and run_trending_analysis
FloorCallers == {"web", "pipeline"}

NoFloorLocal == [min_count |-> 0, needed_count |-> 0, groups_to_use |-> <<>>, promoted |-> {}]

\* no call of ensure_minimum_trends under way
InitFloorIdle ==
    /\ floor_pc = [p \in FloorCallers |-> "idle"]
    /\ floor_local = [p \in FloorCallers |-> NoFloorLocal]

InitExt ==
    /\ InitFloorIdle
    /\ InitEntityTables
    /\ InitEnrichIdle
    /\ InitTrendTables
    /\ InitTrendIdle
    /\ InitOrchestrator

(***************************************************************************)
(* Bounds of the model.                                                    *)
(***************************************************************************)
NumArticles == 3          \* rows of the articles table in the pipeline specification

Articles == 1..NumArticles

(***************************************************************************)
(* Program constants.                                                      *)
(***************************************************************************)
SCALE == 10000
AMBIGUITY_ZONE_BELOW_THRESHOLD == 1000
AMBIGUITY_ZONE_ABOVE_THRESHOLD == 500
MAX_SCORE_GAP_FOR_AMBIGUITY == 800
DEFAULT_SIMILARITY_THRESHOLD == 4000
ENABLE_LLM_MATCH_ASSESSMENT == TRUE
DEFAULT_MERGE_THRESHOLD == 6000

PREDEFINED_CATEGORIES ==
    { "Science & Environment",
      "Business, Finance & Trade",
      "Artificial Intelligence & Machine Learning",
      "Software Development & Open Source",
      "Cybersecurity & Data Privacy",
      "Politics & Government",
      "Consumer Technology & Gadgets",
      "Automotive, Space & Transportation",
      "Enterprise Technology & Cloud Computing",
      "Other" }

\* sqlite3.connect() without "PRAGMA foreign_keys = ON": SQLite does not
\* enforce foreign keys on such a connection, so ON DELETE CASCADE is inert.
ForeignKeysEnforced == FALSE

(***************************************************************************)
(* Generic helpers.                                                        *)
(***************************************************************************)
Max2(a, b) == IF a >= b THEN a ELSE b
Min2(a, b) == IF a <= b THEN a ELSE b

SeqToSet(s) == { s[k] : k \in 1..Len(s) }

RECURSIVE SetToAscSeq(_)
SetToAscSeq(S) ==
    IF S = {} THEN <<>>
    ELSE LET m == CHOOSE x \in S : \A y \in S : x <= y
         IN <<m>> \o SetToAscSeq(S \ {m})

(***************************************************************************)
(* Store queries.                                                          *)
(***************************************************************************)
\* SELECT article_id FROM memberships WHERE group_id = g
MembersOf(ms, g) == { r[1] : r \in { x \in ms : x[2] = g } }

\* SELECT group_id FROM memberships WHERE article_id = a
GroupsOfArticle(ms, a) == { r[2] : r \in { x \in ms : x[1] = a } }

\* publication instant of an article (articles are immutable after insertion)
Published(a) == (a * 2) % (NumArticles + 1)

\* get_existing_groups: every row of the groups table with its member list,
\* in rowid (group_id) order
GroupRowWithMembers(gs, ms, g) ==
    [ group_id    |-> g,
      main_topic  |-> gs[g].main_topic,
      group_label |-> gs[g].group_label,
      article_ids |-> SetToAscSeq(MembersOf(ms, g)) ]

get_existing_groups(gs, ms) ==
    LET ids == SetToAscSeq(DOMAIN gs)
    IN [ k \in 1..Len(ids) |-> GroupRowWithMembers(gs, ms, ids[k]) ]

\* articles with no membership row, ORDER BY published_date DESC
RECURSIVE SortByPublishedDesc(_)
SortByPublishedDesc(S) ==
    IF S = {} THEN <<>>
    ELSE LET m == CHOOSE x \in S : \A y \in S : Published(x) >= Published(y)
         IN <<m>> \o SortByPublishedDesc(S \ {m})

\* the same query without its WHERE NOT EXISTS clause
get_ungrouped_articles_for_processing_all(arts, ms) == SortByPublishedDesc(arts)

\* the same query with ORDER BY published_date ASC
get_ungrouped_articles_for_processing_oldest_first(arts, ms) ==
    LET desc == SortByPublishedDesc({ a \in arts : GroupsOfArticle(ms, a) = {} })
    IN [ k \in 1..Len(desc) |-> desc[Len(desc) + 1 - k] ]

get_ungrouped_articles_for_processing(arts, ms) ==
    SortByPublishedDesc({ a \in arts : GroupsOfArticle(ms, a) = {} })

(***************************************************************************)
(* Store writes.                                                           *)
(***************************************************************************)
\* add_article_to_group on a cursor: "existing" is the row fetchone() returned
\* (0 when the article has no membership row).
add_article_to_group(ms, article_id, group_id, existing) ==
    IF existing # 0 /\ existing = group_id
    THEN ms
    ELSE LET cleared == IF existing # 0
                        THEN { r \in ms : r[1] # article_id }
                        ELSE ms
         IN cleared \cup { <<article_id, group_id>> }

\* the rows fetchone() can return for SELECT group_id ... WHERE article_id = a
FetchOneGroup(ms, a) ==
    IF GroupsOfArticle(ms, a) = {} THEN {0} ELSE GroupsOfArticle(ms, a)

\* DeleteGroupRow without the DELETE
DeleteGroupRow_Kept(gs, g) == gs

\* DELETE FROM two_phase_article_groups WHERE group_id = g, with the cascade
\* to the membership rows only when the connection enforces foreign keys
DeleteGroupRow(gs, g) == [ x \in (DOMAIN gs) \ {g} |-> gs[x] ]

CascadeMemberships(ms, g) ==
    IF ForeignKeysEnforced THEN { r \in ms : r[2] # g } ELSE ms

(***************************************************************************)
(* Dynamic threshold (_calculate_dynamic_threshold, DYNAMIC_THRESHOLD_RULES)*)
(***************************************************************************)
CategoryAdjust(category) ==
    CASE category = "Cybersecurity & Data Privacy" -> 500
      [] category = "Artificial Intelligence & Machine Learning" -> 300
      [] category = "Other" -> 0 - 300
      [] OTHER -> 0

SizeBreakpoints == <<1, 5, 10>>
SizeAdjustments == <<500, 0, 0 - 300, 0 - 500>>

\* the loop "for i, bp in enumerate(breakpoints): if size > bp: adj_index = i+1 else break"
RECURSIVE AdjIndex(_, _, _)
AdjIndex(group_size, k, acc) ==
    IF k > Len(SizeBreakpoints) THEN acc
    ELSE IF group_size > SizeBreakpoints[k]
         THEN AdjIndex(group_size, k + 1, k + 1)
         ELSE acc

\* variant: a size equal to a breakpoint falls into the next bucket
SizeAdjust_inclusive(group_size) == SizeAdjustments[AdjIndex(group_size + 1, 1, 1)]

SizeAdjust(group_size) == SizeAdjustments[AdjIndex(group_size, 1, 1)]

\* _calculate_dynamic_threshold with the base subtracted instead of added
_calculate_dynamic_threshold_falling(category, group_size, base_threshold) ==
    Max2(1000, Min2(9000, SCALE - base_threshold + CategoryAdjust(category) + SizeAdjust(group_size)))

_calculate_dynamic_threshold(category, group_size, base_threshold) ==
    Max2(1000, Min2(9000, base_threshold + CategoryAdjust(category) + SizeAdjust(group_size)))

(***************************************************************************)
(* Parsing of the arbitration reply.  A reply is a sequence of characters; *)
(* None and the empty string are both the empty sequence (both are falsy). *)
(***************************************************************************)
DigitChars == <<"0", "1", "2", "3", "4", "5", "6", "7", "8", "9">>

IsDigit(c) == \E k \in 1..10 : DigitChars[k] = c
DigitVal(c) == (CHOOSE k \in 1..10 : DigitChars[k] = c) - 1

IsSpace(c) == c \in {" ", "\n", "\t"}

RECURSIVE StripLeft(_)
StripLeft(s) ==
    IF s # <<>> /\ IsSpace(Head(s)) THEN StripLeft(Tail(s)) ELSE s

RECURSIVE StripRight(_)
StripRight(s) ==
    IF s # <<>> /\ IsSpace(s[Len(s)]) THEN StripRight(SubSeq(s, 1, Len(s) - 1)) ELSE s

Strip(s) == StripRight(StripLeft(s))

\* int(text): succeeds on a non-empty run of decimal digits
IsIntLiteral(s) == s # <<>> /\ \A k \in 1..Len(s) : IsDigit(s[k])

RECURSIVE IntValue(_)
IntValue(s) ==
    IF s = <<>> THEN 0
    ELSE IntValue(SubSeq(s, 1, Len(s) - 1)) * 10 + DigitVal(s[Len(s)])

LowerChar(c) ==
    CASE c = "N" -> "n"
      [] c = "O" -> "o"
      [] c = "E" -> "e"
      [] c = "P" -> "p"
      [] OTHER -> c

Lower(s) == [ k \in 1..Len(s) |-> LowerChar(s[k]) ]

\* "none" in text.lower()
ContainsNone(s) ==
    \E k \in 1..Len(s) :
        /\ k + 3 <= Len(s)
        /\ SubSeq(Lower(s), k, k + 3) = <<"n", "o", "n", "e">>

\* a parser that accepts every integer, candidate or not
ParseArbitrationReply_AnyId(reply, candidate_group_ids) ==
    IF reply = <<>> THEN [kind |-> "fail", id |-> 0]
    ELSE IF IsIntLiteral(Strip(reply))
         THEN [kind |-> "id", id |-> IntValue(Strip(reply))]
         ELSE IF ContainsNone(reply)
              THEN [kind |-> "none", id |-> 0]
              ELSE [kind |-> "fail", id |-> 0]

\* llm_group_id after the parsing block: kind "id" (an integer among the
\* candidates), "none" (the string "None") or "fail" (the Python value None)
ParseArbitrationReply(reply, candidate_group_ids) ==
    IF reply = <<>> THEN [kind |-> "fail", id |-> 0]
    ELSE IF IsIntLiteral(Strip(reply))
         THEN IF IntValue(Strip(reply)) \in candidate_group_ids
              THEN [kind |-> "id", id |-> IntValue(Strip(reply))]
              ELSE [kind |-> "fail", id |-> 0]
         ELSE IF ContainsNone(reply)
              THEN [kind |-> "none", id |-> 0]
              ELSE [kind |-> "fail", id |-> 0]

(***************************************************************************)
(* Decision logic of process_single_ungrouped_article.                     *)
(* group_scores is the list after sort(key=score, reverse=True).           *)
(***************************************************************************)
is_match_above_threshold(best, thr) == best >= thr

\* a zone whose upper edge is closed
is_in_ambiguity_zone_closed(best, thr, second) ==
    \/ /\ thr - AMBIGUITY_ZONE_BELOW_THRESHOLD <= best
       /\ best <= thr + AMBIGUITY_ZONE_ABOVE_THRESHOLD
    \/ /\ best >= thr
       /\ best - second < MAX_SCORE_GAP_FOR_AMBIGUITY

is_in_ambiguity_zone(best, thr, second) ==
    \/ /\ thr - AMBIGUITY_ZONE_BELOW_THRESHOLD <= best
       /\ best < thr + AMBIGUITY_ZONE_ABOVE_THRESHOLD
    \/ /\ is_match_above_threshold(best, thr)
       /\ best - second < MAX_SCORE_GAP_FOR_AMBIGUITY

CandidateGroupIds(group_scores) ==
    { group_scores[k].group_id : k \in 1..Min2(3, Len(group_scores)) }

\* the decision and the group it names (final_group_id, 0 for None)
Decide(group_scores, reply) ==
    IF group_scores = <<>>
    THEN [decision |-> "create_new", final_group_id |-> 0, llm_check_triggered |-> FALSE]
    ELSE
      LET best   == group_scores[1].score
          thr    == group_scores[1].dynamic_threshold
          second == IF Len(group_scores) > 1 THEN group_scores[2].score ELSE 0 - SCALE
          above  == is_match_above_threshold(best, thr)
          zone   == is_in_ambiguity_zone(best, thr, second)
          parsed == ParseArbitrationReply(reply, CandidateGroupIds(group_scores))
          fallback ==
              IF above
              THEN [decision |-> "add_to_existing", final_group_id |-> group_scores[1].group_id,
                    llm_check_triggered |-> TRUE]
              ELSE [decision |-> "create_new", final_group_id |-> 0,
                    llm_check_triggered |-> TRUE]
      IN IF above /\ ~zone
         THEN [decision |-> "add_to_existing", final_group_id |-> group_scores[1].group_id,
               llm_check_triggered |-> FALSE]
         ELSE IF ENABLE_LLM_MATCH_ASSESSMENT /\ zone
         THEN IF parsed.kind = "fail" THEN fallback
              ELSE IF parsed.kind = "none"
              THEN [decision |-> "create_new", final_group_id |-> 0, llm_check_triggered |-> TRUE]
              ELSE [decision |-> "add_to_existing", final_group_id |-> parsed.id,
                    llm_check_triggered |-> TRUE]
         ELSE [decision |-> "create_new", final_group_id |-> 0, llm_check_triggered |-> FALSE]

LlmCheckTriggered(group_scores) == Decide(group_scores, <<>>).llm_check_triggered

(***************************************************************************)
(* Inputs of the grouping run drawn from the environment.                  *)
(***************************************************************************)
\* composite scores the scorer can report for an (article, group) pair
SpecScores == {0, 3500, 4200, 5000, 9000}

\* replies of the arbitration LLM call
ArbReplies ==
    { <<>>,
      <<"1">>, <<"2">>, <<" ", "3", "\n">>, <<"9">>,
      <<"N", "o", "n", "e">>,
      <<"n", "o", "n", "e", " ", "f", "i", "t", "s">>,
      <<"G", "r", "o", "u", "p", " ", "1">> }

\* replies of the LLM call of create_new_group_for_single_article:
\* no response, text that is not JSON, JSON that is not an object, a JSON object
\* with a known main_topic and a label, and one with an unknown main_topic and
\* no label
CreateReplies ==
    { [kind |-> "no_response", main_topic |-> "", has_label |-> FALSE],
      [kind |-> "garbage",     main_topic |-> "", has_label |-> FALSE],
      [kind |-> "non_object",  main_topic |-> "", has_label |-> FALSE],
      [kind |-> "json", main_topic |-> "Cybersecurity & Data Privacy", has_label |-> TRUE],
      [kind |-> "json", main_topic |-> "Sports", has_label |-> FALSE] }

\* stable sort of group_scores by score, descending
RECURSIVE InsertByScore(_, _)
InsertByScore(sorted, x) ==
    IF sorted = <<>> THEN <<x>>
    ELSE IF Head(sorted).score >= x.score
         THEN <<Head(sorted)>> \o InsertByScore(Tail(sorted), x)
         ELSE <<x>> \o sorted

RECURSIVE SortByScoreDesc(_)
SortByScoreDesc(s) ==
    IF s = <<>> THEN <<>>
    ELSE InsertByScore(SortByScoreDesc(SubSeq(s, 1, Len(s) - 1)), s[Len(s)])

\* group_scores of one article against the cache, given the composite scores
GroupScores(cch, sc) ==
    SortByScoreDesc(
        [ k \in 1..Len(cch) |->
            [ group_id |-> cch[k].group_id,
              score |-> sc[k],
              dynamic_threshold |->
                  _calculate_dynamic_threshold(cch[k].main_topic, Len(cch[k].article_ids),
                                               DEFAULT_SIMILARITY_THRESHOLD) ] ])

\* main_topic, group_label chosen by create_new_group_for_single_article
NewGroupTopic(creply) ==
    IF creply.kind = "json"
    THEN IF creply.main_topic \in PREDEFINED_CATEGORIES THEN creply.main_topic ELSE "Other"
    ELSE "Other"

NewGroupLabel(creply) ==
    IF creply.kind = "json"
    THEN IF creply.has_label THEN "llm" ELSE "default"
    ELSE "auto"

\* TRUE when create_new_group_for_single_article reaches its database block
CreateReachesStore(creply) == creply.kind \in {"json", "garbage"}

NoResult == [article_id |-> 0, status |-> "none", group_id |-> 0,
             llm_check_triggered |-> FALSE, create_reply |-> "n/a", db_ok |-> TRUE]

(***************************************************************************)
(* Grouping run (run_grouping_update).                                     *)
(***************************************************************************)
harnessVars == <<d_in, d_out, s_in, s_out>>

\* an entry of existing_groups_with_signatures: the group and the members its
\* signature was generated from
CacheEntry(g) ==
    [ group_id    |-> g.group_id,
      main_topic  |-> g.main_topic,
      group_label |-> g.group_label,
      article_ids |-> g.article_ids,
      sig_members |-> SeqToSet(g.article_ids) ]

SignatureCache(withArticles) == [ k \in 1..Len(withArticles) |-> CacheEntry(withArticles[k]) ]

\* fetch the groups, build the signature cache, fetch the ungrouped articles
StartGrouping ==
    /\ phase = "idle"
    /\ \E existing \in { get_existing_groups(groups, memberships) } :
         cache' = SignatureCache(SelectSeq(existing, LAMBDA g : g.article_ids # <<>>))
    /\ queue' = get_ungrouped_articles_for_processing(articles, memberships)
    /\ last' = NoResult
    /\ phase' = "grouping"
    /\ UNCHANGED <<storeVars, mergeVars, harnessVars, extVars>>

\* variant: a loop that an article's error ends
RemainingAfter_Abort(q, status) == IF status = "error" THEN <<>> ELSE Tail(q)

\* the for loop over the ungrouped articles goes on to the next row whatever
\* the result of the current one was
RemainingAfter(q, status) == Tail(q)

\* loop body for an article without content: counted as an error and skipped
SkipArticle ==
    /\ phase = "grouping"
    /\ queue # <<>>
    /\ Head(queue) \in empty_content
    /\ last' = [NoResult EXCEPT !.article_id = Head(queue), !.status = "skipped"]
    /\ queue' = RemainingAfter(queue, last'.status)
    /\ UNCHANGED <<storeVars, phase, cache, mergeVars, harnessVars, extVars>>

\* variant: the signature of the group is generated again after the append
AppendToCachedMembers_resigned(cch, group_id, a) ==
    [ k \in 1..Len(cch) |->
        IF cch[k].group_id = group_id
        THEN [cch[k] EXCEPT !.article_ids = Append(@, a), !.sig_members = @ \cup {a}]
        ELSE cch[k] ]

\* "Update local list": the article id is appended to the article_ids of the
\* entry of the group; its signature is not generated again
AppendToCachedMembers(cch, group_id, a) ==
    [ k \in 1..Len(cch) |->
        IF cch[k].group_id = group_id
        THEN [cch[k] EXCEPT !.article_ids = Append(@, a)]
        ELSE cch[k] ]

\* the attach branch: BEGIN, add_article_to_group on the cursor, COMMIT or ROLLBACK,
\* then the append to the cached member list
AttachArticle(a, d, db_ok, existing) ==
    /\ IF db_ok
       THEN /\ memberships' = add_article_to_group(memberships, a, d.final_group_id, existing)
            /\ cache' = AppendToCachedMembers(cache, d.final_group_id, a)
            /\ last' = [article_id |-> a, status |-> "added_to_existing",
                        group_id |-> d.final_group_id,
                        llm_check_triggered |-> d.llm_check_triggered,
                        create_reply |-> "n/a", db_ok |-> TRUE]
       ELSE /\ UNCHANGED <<memberships, cache>>
            /\ last' = [article_id |-> a, status |-> "error", group_id |-> 0,
                        llm_check_triggered |-> d.llm_check_triggered,
                        create_reply |-> "n/a", db_ok |-> FALSE]
    /\ UNCHANGED <<groups, nextGroupId>>

\* the statement of the creation transaction that fails when the database does
CreateFailures == {"insert_group", "attach", "commit"}

\* the group table after "INSERT INTO two_phase_article_groups" of the creation
WithNewGroup(gs, id, creply) ==
    [ g \in (DOMAIN gs) \cup {id} |->
        IF g = id
        THEN [main_topic |-> NewGroupTopic(creply), group_label |-> NewGroupLabel(creply)]
        ELSE gs[g] ]

\* NotSuccess without the test of the value add_article_to_group returned
NotSuccess_Ignored(success) == FALSE

\* "if not success: ... conn.rollback(); return None"
NotSuccess(success) == ~success

\* the create branch: create_new_group_for_single_article (BEGIN, INSERT of the
\* group row, add_article_to_group on the same cursor, COMMIT or ROLLBACK) and,
\* on success, the append of the new group and its signature to the cache
CreateGroup(a, d, creply, db_ok, existing) ==
    IF ~CreateReachesStore(creply)
    THEN /\ UNCHANGED <<groups, memberships, nextGroupId, cache>>
         /\ last' = [article_id |-> a, status |-> "error", group_id |-> 0,
                     llm_check_triggered |-> d.llm_check_triggered,
                     create_reply |-> creply.kind, db_ok |-> TRUE]
    ELSE \E fail_at \in (IF db_ok THEN {"none"} ELSE CreateFailures) :
           LET success == fail_at # "attach"
               committed == \/ fail_at = "none"
                            \/ fail_at = "attach" /\ ~NotSuccess(success)
           IN IF committed
              THEN /\ groups' = WithNewGroup(groups, nextGroupId, creply)
                   /\ memberships' =
                          IF success
                          THEN add_article_to_group(memberships, a, nextGroupId, existing)
                          ELSE memberships
                   /\ nextGroupId' = nextGroupId + 1
                   /\ cache' = Append(cache,
                                  [ group_id    |-> nextGroupId,
                                    main_topic  |-> NewGroupTopic(creply),
                                    group_label |-> NewGroupLabel(creply),
                                    article_ids |-> <<a>>,
                                    sig_members |-> {a} ])
                   /\ last' = [article_id |-> a, status |-> "created_new",
                               group_id |-> nextGroupId,
                               llm_check_triggered |-> d.llm_check_triggered,
                               create_reply |-> creply.kind, db_ok |-> db_ok]
              ELSE /\ UNCHANGED <<groups, memberships, nextGroupId, cache>>
                   /\ last' = [article_id |-> a, status |-> "error", group_id |-> 0,
                               llm_check_triggered |-> d.llm_check_triggered,
                               create_reply |-> creply.kind, db_ok |-> db_ok]

\* loop body: process_single_ungrouped_article and the bookkeeping after it
ProcessArticle ==
    /\ phase = "grouping"
    /\ queue # <<>>
    /\ Head(queue) \notin empty_content
    /\ LET a == Head(queue)
       IN \E sig_ok \in BOOLEAN :
            IF ~sig_ok
            THEN /\ last' = [NoResult EXCEPT !.article_id = a, !.status = "error"]
                 /\ UNCHANGED <<groups, memberships, nextGroupId, cache>>
            ELSE \E sc \in [1..Len(cache) -> SpecScores] :
                   LET group_scores == GroupScores(cache, sc)
                   IN \E reply \in (IF LlmCheckTriggered(group_scores) THEN ArbReplies ELSE {<<>>}) :
                        LET d == Decide(group_scores, reply)
                        IN \E db_ok \in BOOLEAN, existing \in FetchOneGroup(memberships, a) :
                             IF d.decision = "add_to_existing"
                             THEN AttachArticle(a, d, db_ok, existing)
                             ELSE \E creply \in CreateReplies :
                                    CreateGroup(a, d, creply, db_ok, existing)
    /\ queue' = RemainingAfter(queue, last'.status)
    /\ UNCHANGED <<articles, empty_content, phase, mergeVars, harnessVars, extVars>>

FinishGrouping ==
    /\ phase = "grouping"
    /\ queue = <<>>
    /\ phase' = "grouped"
    /\ cache' = <<>>
    /\ last' = NoResult
    /\ UNCHANGED <<storeVars, queue, mergeVars, harnessVars, extVars>>

\* add_article_to_group called on its own connection for an article and an
\* existing group (the move path when the article is a member of another group)
MoveArticle ==
    /\ phase = "idle"
    /\ \E a \in articles, g \in DOMAIN groups :
       \E existing \in FetchOneGroup(memberships, a) :
         /\ existing # 0
         /\ existing # g
         /\ memberships' = add_article_to_group(memberships, a, g, existing)
    /\ UNCHANGED <<groups, nextGroupId, articles, empty_content, phase, groupVars, mergeVars, harnessVars, extVars>>

(***************************************************************************)
(* Merge pass (merge_similar_groups).                                      *)
(***************************************************************************)
\* similarities _calculate_group_similarity can report for a pair
MergeSims == {4500, 6000, 7200}

\* replies of the LLM call that asks for the merged label
MergeReplies == {"no_response", "garbage", "json"}

MergedLabel(mreply) == IF mreply = "json" THEN "merged_llm" ELSE "merged_fallback"

\* AlreadyProcessed without the processed_group_ids test
AlreadyProcessed_Never(a, b, processed) == FALSE

\* "if group_a_id in processed_group_ids or group_b_id in processed_group_ids: continue"
AlreadyProcessed(a, b, processed) == a \in processed \/ b \in processed

\* the surviving group of a pair enumerated as (group_a, group_b)
SurvivingGroup(a, b) == a
DeletedGroup(a, b)   == b

\* step 1 of the merge transaction: UPDATE ... SET group_label, description
UpdateSurvivor(gs, s, label) ==
    [ g \in DOMAIN gs |-> IF g = s THEN [gs[g] EXCEPT !.group_label = label] ELSE gs[g] ]

\* step 2: INSERT OR IGNORE INTO memberships SELECT article_id, s WHERE group_id = l
ReassignMemberships(ms, s, l) == ms \cup { <<x, s>> : x \in MembersOf(ms, l) }

\* the committed merge transaction on the two tables
MergeGroups(gs, s, l, label) == DeleteGroupRow(UpdateSurvivor(gs, s, label), l)
MergeMemberships(ms, s, l) == CascadeMemberships(ReassignMemberships(ms, s, l), l)

\* the two tables inside the transaction after its first `done` statements
\* (UPDATE, INSERT OR IGNORE ... SELECT, DELETE)
StatementsDone(gs, ms, s, l, label, done) ==
    [ groups      |-> IF done >= 3 THEN MergeGroups(gs, s, l, label)
                      ELSE IF done >= 1 THEN UpdateSurvivor(gs, s, label) ELSE gs,
      memberships |-> IF done >= 3 THEN MergeMemberships(ms, s, l)
                      ELSE IF done >= 2 THEN ReassignMemberships(ms, s, l) ELSE ms ]

\* variant: the statements executed before the error stay in the table
Rollback_Kept(before, partial) == partial

\* conn_merge.rollback() in the sqlite3.Error handler: the table is as it
\* was at BEGIN TRANSACTION
Rollback(before, partial) == before

MergeLoopDone == mj > Len(merge_list)

\* load the groups and their signatures; with fewer than 2 groups the function
\* returns before the loops (an empty list: the loops have nothing to do)
StartMerge ==
    /\ phase = "grouped"
    /\ \E existing \in { get_existing_groups(groups, memberships) } :
         merge_list' = IF Len(existing) < 2 THEN <<>>
                       ELSE SelectSeq(existing, LAMBDA g : g.article_ids # <<>>)
    /\ phase' = "merging"
    /\ UNCHANGED <<mi, mj, processed_group_ids, merged_pairs_count, merge_errors, merged_log>>
    /\ UNCHANGED <<storeVars, groupVars, harnessVars, extVars>>

\* one iteration of the inner loop that hits "continue" or stays below the threshold
MergeCompare ==
    /\ phase = "merging"
    /\ ~MergeLoopDone
    /\ LET a == merge_list[mi].group_id
           b == merge_list[mj].group_id
       IN \/ AlreadyProcessed(a, b, processed_group_ids)
          \/ \E sim \in MergeSims : sim < DEFAULT_MERGE_THRESHOLD
    /\ IF mj + 1 <= Len(merge_list)
       THEN /\ mj' = mj + 1
            /\ mi' = mi
       ELSE /\ mi' = mi + 1
            /\ mj' = mi + 2
    /\ UNCHANGED <<storeVars, phase, groupVars, merge_list, processed_group_ids,
                   merged_pairs_count, merge_errors, merged_log, harnessVars, extVars>>

\* one iteration of the inner loop that reaches the merge: pick the survivor, ask
\* for the label, run the transaction (commit, or rollback on a sqlite3.Error
\* raised by one of its statements or by the commit), break
MergePair ==
    /\ phase = "merging"
    /\ ~MergeLoopDone
    /\ LET a == merge_list[mi].group_id
           b == merge_list[mj].group_id
           s == SurvivingGroup(a, b)
           l == DeletedGroup(a, b)
       IN /\ ~AlreadyProcessed(a, b, processed_group_ids)
          /\ \E sim \in MergeSims : sim >= DEFAULT_MERGE_THRESHOLD
          /\ \E mreply \in MergeReplies, db_ok \in BOOLEAN :
               IF db_ok
               THEN /\ groups' = MergeGroups(groups, s, l, MergedLabel(mreply))
                    /\ memberships' = MergeMemberships(memberships, s, l)
                    /\ merged_pairs_count' = merged_pairs_count + 1
                    /\ processed_group_ids' = processed_group_ids \cup {a, b}
                    /\ merged_log' = Append(merged_log, <<s, l>>)
                    /\ UNCHANGED merge_errors
               ELSE \E done \in 0..3 :
                      \E partial \in { StatementsDone(groups, memberships, s, l,
                                                      MergedLabel(mreply), done) } :
                        /\ groups' = Rollback(groups, partial.groups)
                        /\ memberships' = Rollback(memberships, partial.memberships)
                        /\ merge_errors' = merge_errors + 1
                        /\ UNCHANGED <<merged_pairs_count, processed_group_ids, merged_log>>
    /\ mi' = mi + 1
    /\ mj' = mi + 2
    /\ UNCHANGED <<nextGroupId, articles, empty_content, phase, groupVars, merge_list, harnessVars, extVars>>

\* the loops are exhausted: log the statistics and return (the locals are gone)
FinishMerge ==
    /\ phase = "merging"
    /\ MergeLoopDone
    /\ phase' = "idle"
    /\ merge_list' = <<>>
    /\ mi' = 1
    /\ mj' = 2
    /\ processed_group_ids' = {}
    /\ merged_pairs_count' = 0
    /\ merge_errors' = 0
    /\ merged_log' = <<>>
    /\ UNCHANGED <<storeVars, groupVars, harnessVars, extVars>>

(***************************************************************************)
(* The pipeline: grouping, then merging, tick after tick.                  *)
(***************************************************************************)
EmptyHarness == [kind |-> "unused"]

Init ==
    /\ groups = << >>
    /\ memberships = {}
    /\ nextGroupId = 1
    /\ articles = Articles
    /\ empty_content \in {{}, {1}}
    /\ InitExt
    /\ phase = "idle"
    /\ cache = <<>>
    /\ queue = <<>>
    /\ last = NoResult
    /\ merge_list = <<>>
    /\ mi = 1
    /\ mj = 2
    /\ processed_group_ids = {}
    /\ merged_pairs_count = 0
    /\ merge_errors = 0
    /\ merged_log = <<>>
    /\ d_in = EmptyHarness
    /\ d_out = EmptyHarness
    /\ s_in = EmptyHarness
    /\ s_out = EmptyHarness

Pipeline ==
    \/ StartGrouping
    \/ SkipArticle
    \/ ProcessArticle
    \/ FinishGrouping
    \/ StartMerge
    \/ MergeCompare
    \/ MergePair
    \/ FinishMerge

Next ==
    \/ StartGrouping
    \/ SkipArticle
    \/ ProcessArticle
    \/ FinishGrouping
    \/ StartMerge
    \/ MergeCompare
    \/ MergePair
    \/ FinishMerge
    \/ MoveArticle

Spec == Init /\ [][Next]_vars

\* the orchestrator keeps running ticks, and every pipeline step returns
LiveSpec == Init /\ [][Next]_vars /\ WF_vars(Pipeline)

TypeOK ==
    /\ DOMAIN groups \subseteq 1..(nextGroupId - 1)
    /\ memberships \subseteq (articles \X (1..(nextGroupId - 1)))
    /\ phase \in {"idle", "grouping", "grouped", "merging"}

(***************************************************************************)
(* Harness of the decision logic: one article against up to four candidate *)
(* groups, over a grid of scores around every boundary of the rule.        *)
(***************************************************************************)
MaxCandidates == 4

\* group ids in the order of group_scores after the sort
DecideGroupIds == <<3, 1, 4, 2, 5, 6, 7, 8>>

DecideCategories ==
    { "Cybersecurity & Data Privacy", "Artificial Intelligence & Machine Learning",
      "Other", "Science & Environment" }

DecideSizes == {1, 2, 6, 11}

\* best scores: every multiple of 0.01 between 0.20 and 0.60 and its two neighbours
DecideScores ==
    {0, SCALE} \cup { x \in 2000..6000 : x % 100 \in {0, 1, 99} }

\* gaps between the best and the second best score
DecideGaps == {0, 1, 799, 800, 801, 3000}

DecideInputs ==
    [ n : {1, 2, MaxCandidates}, category : DecideCategories, size : DecideSizes,
      best : DecideScores, gap : DecideGaps, reply : ArbReplies ]

\* the sorted group_scores list of an input
DecideGroupScores(in) ==
    [ k \in 1..in.n |->
        [ group_id |-> DecideGroupIds[k],
          score |-> IF k = 1 THEN in.best
                    ELSE IF k = 2 THEN Max2(0, in.best - in.gap)
                    ELSE 0,
          dynamic_threshold |->
              _calculate_dynamic_threshold(IF k = 1 THEN in.category ELSE "Other",
                                           IF k = 1 THEN in.size ELSE 2,
                                           DEFAULT_SIMILARITY_THRESHOLD) ] ]

InitDecide ==
    /\ groups = << >>
    /\ memberships = {}
    /\ nextGroupId = 1
    /\ articles = {}
    /\ empty_content = {}
    /\ InitExt
    /\ phase = "idle"
    /\ cache = <<>>
    /\ queue = <<>>
    /\ last = NoResult
    /\ merge_list = <<>>
    /\ mi = 1
    /\ mj = 2
    /\ processed_group_ids = {}
    /\ merged_pairs_count = 0
    /\ merge_errors = 0
    /\ merged_log = <<>>
    /\ d_in \in { in \in DecideInputs :
                    /\ (in.n = 1 => in.gap = 0)
                    /\ (~LlmCheckTriggered(DecideGroupScores(in)) => in.reply = <<>>) }
    /\ d_out = EmptyHarness
    /\ s_in = EmptyHarness
    /\ s_out = EmptyHarness

\* the decision block of process_single_ungrouped_article on the input
DecideStep ==
    /\ d_out = EmptyHarness
    /\ LET d == Decide(DecideGroupScores(d_in), d_in.reply)
       IN d_out' = [kind |-> "decided", decision |-> d.decision,
                    final_group_id |-> d.final_group_id,
                    llm_check_triggered |-> d.llm_check_triggered]
    /\ UNCHANGED <<storeVars, phase, groupVars, mergeVars, extVars, d_in, s_in, s_out>>

NextDecide == DecideStep

SpecDecide == InitDecide /\ [][NextDecide]_vars

\* the quantities the rule is stated in
DBest   == d_in.best
DThr    == _calculate_dynamic_threshold(d_in.category, d_in.size, DEFAULT_SIMILARITY_THRESHOLD)
DSecond == IF d_in.n > 1 THEN Max2(0, d_in.best - d_in.gap) ELSE 0 - SCALE
DInZone ==
    \/ (DThr - 1000 <= DBest /\ DBest < DThr + 500)
    \/ (DBest >= DThr /\ DBest - DSecond < 800)

\* C4: with arbitration enabled the article is attached to the best group
\* without arbitration exactly when S* >= T* outside the ambiguity zone,
\* arbitration is triggered exactly in the zone, and otherwise (exactly when
\* S* < T* - 0.10) a new group is created without arbitration; S* = T* is in
\* the zone.
C4_DecisionRule ==
    d_out.kind = "decided" =>
        /\ d_out.llm_check_triggered <=> DInZone
        /\ (~d_out.llm_check_triggered /\ d_out.decision = "add_to_existing")
              <=> (DBest >= DThr /\ ~DInZone)
        /\ (~d_out.llm_check_triggered /\ d_out.decision = "add_to_existing")
              => d_out.final_group_id = DecideGroupIds[1]
        /\ (~d_out.llm_check_triggered /\ d_out.decision = "create_new")
              <=> (DBest < DThr - 1000)
        /\ d_out.decision \in {"add_to_existing", "create_new"}
        /\ (DBest = DThr => d_out.llm_check_triggered)

\* an article scored exactly at the threshold of its best group went to arbitration
C4_Witness ==
    /\ d_out.kind = "decided"
    /\ DBest = DThr
    /\ d_out.llm_check_triggered

\* the reply read as the claim reads it
DCandidates == { DecideGroupIds[k] : k \in 1..Min2(3, d_in.n) }
DReplyIsCandidateId ==
    /\ IsIntLiteral(Strip(d_in.reply))
    /\ IntValue(Strip(d_in.reply)) \in DCandidates
DReplyIsLiteralNone == Strip(d_in.reply) = <<"N", "o", "n", "e">>
DReplyMentionsNone == ~IsIntLiteral(Strip(d_in.reply)) /\ ContainsNone(d_in.reply)
DThresholdFallback ==
    IF DBest >= DThr
    THEN d_out.decision = "add_to_existing" /\ d_out.final_group_id = DecideGroupIds[1]
    ELSE d_out.decision = "create_new"

\* C5 (as stated): on the ambiguous path a reply that parses to a top-3
\* candidate id attaches to that group, the literal None creates a new group,
\* and any other reply falls back to the threshold comparison.
C5_ReplyDecides ==
    (d_out.kind = "decided" /\ d_out.llm_check_triggered) =>
        IF DReplyIsCandidateId
        THEN d_out.decision = "add_to_existing"
             /\ d_out.final_group_id = IntValue(Strip(d_in.reply))
        ELSE IF DReplyIsLiteralNone
        THEN d_out.decision = "create_new"
        ELSE DThresholdFallback

\* C5 (amended): on the ambiguous path a reply that parses to a top-3
\* candidate id attaches to that group, a reply that is not an integer and
\* contains the word none in any letter case creates a new group, and any
\* other reply falls back to the threshold comparison.
C5_ReplyDecidesAmended ==
    (d_out.kind = "decided" /\ d_out.llm_check_triggered) =>
        IF DReplyIsCandidateId
        THEN d_out.decision = "add_to_existing"
             /\ d_out.final_group_id = IntValue(Strip(d_in.reply))
        ELSE IF DReplyMentionsNone
        THEN d_out.decision = "create_new"
        ELSE DThresholdFallback

\* arbitration of an above-threshold match answered with a sentence that
\* mentions none: a new group
C5_Witness ==
    /\ d_out.kind = "decided"
    /\ d_out.llm_check_triggered
    /\ DBest >= DThr
    /\ DReplyMentionsNone
    /\ ~DReplyIsLiteralNone
    /\ d_out.decision = "create_new"

(***************************************************************************)
(* Properties of the store under grouping runs, moves and merge passes.    *)
(***************************************************************************)

\* C1: in every reachable state each article id occurs in at most one
\* group-membership row.
C1_AtMostOneMembership ==
    \A a \in articles : Cardinality(GroupsOfArticle(memberships, a)) <= 1

\* C2: a committed merge of loser L into survivor S leaves no group row L, no
\* membership row that references L, and gives S exactly the union of the
\* members S and L had before.
C2_MergePostcondition ==
    [][ (merged_pairs_count' = merged_pairs_count + 1) =>
          LET e == merged_log'[Len(merged_log')]
              S == e[1]
              L == e[2]
          IN /\ L \notin DOMAIN groups'
             /\ MembersOf(memberships', L) = {}
             /\ MembersOf(memberships', S) =
                    MembersOf(memberships, S) \cup MembersOf(memberships, L)
      ]_vars

\* C3: every group row has at least one membership row (a group left with
\* zero members is deleted).
C3_NoEmptyGroup ==
    \A g \in DOMAIN groups : MembersOf(memberships, g) # {}

\* C6: an LLM failure never leaves an article ungrouped: when the LLM call of
\* the create-new-group step returns no reply or an unparsable reply (and the
\* store write succeeds) a group of category Other with a synthesized label
\* exists afterwards and the article is a member of it.
C6_LlmFailureStillGroups ==
    (last.create_reply \in {"no_response", "garbage"} /\ last.db_ok) =>
        /\ last.status = "created_new"
        /\ last.group_id \in DOMAIN groups
        /\ groups[last.group_id].main_topic = "Other"
        /\ groups[last.group_id].group_label = "auto"
        /\ <<last.article_id, last.group_id>> \in memberships

\* the survivor the rule names: more members; on equal size the older group.
\* created_at is CURRENT_TIMESTAMP at the insert and group_id is AUTOINCREMENT,
\* so created_at never decreases with group_id and "older, then smaller id"
\* is the smaller id.
PreferredSurvivor(a, b, ms) ==
    IF Cardinality(MembersOf(ms, a)) > Cardinality(MembersOf(ms, b)) THEN a
    ELSE IF Cardinality(MembersOf(ms, b)) > Cardinality(MembersOf(ms, a)) THEN b
    ELSE Min2(a, b)

\* C8: the survivor of a merge is the group with more members, on equal size
\* the older one, on a further tie the one with the smaller id.
C8_SurvivorRule ==
    [][ (merged_pairs_count' = merged_pairs_count + 1) =>
          merged_log'[Len(merged_log')][1] =
              PreferredSurvivor(merge_list[mi].group_id, merge_list[mj].group_id, memberships)
      ]_vars

(***************************************************************************)
(* Merge passes over a populated store: every article is grouped, so the   *)
(* grouping run between two passes adds neither articles nor groups.       *)
(***************************************************************************)
NumMergeGroups == 4

\* the store after NumMergeGroups create-new decisions (article g founded group g)
\* and one attach of a further article to one of the groups
InitMerge ==
    /\ groups = [ g \in 1..NumMergeGroups |-> [main_topic |-> "Other", group_label |-> "auto"] ]
    /\ \E e \in 1..NumMergeGroups :
          memberships = { <<g, g>> : g \in 1..NumMergeGroups } \cup { <<NumMergeGroups + 1, e>> }
    /\ nextGroupId = NumMergeGroups + 1
    /\ articles = 1..(NumMergeGroups + 1)
    /\ empty_content = {}
    /\ InitExt
    /\ phase = "idle"
    /\ cache = <<>>
    /\ queue = <<>>
    /\ last = NoResult
    /\ merge_list = <<>>
    /\ mi = 1
    /\ mj = 2
    /\ processed_group_ids = {}
    /\ merged_pairs_count = 0
    /\ merge_errors = 0
    /\ merged_log = <<>>
    /\ d_in = EmptyHarness
    /\ d_out = EmptyHarness
    /\ s_in = EmptyHarness
    /\ s_out = EmptyHarness

NextMerge ==
    \/ StartGrouping
    \/ FinishGrouping
    \/ StartMerge
    \/ MergeCompare
    \/ MergePair
    \/ FinishMerge

MergeSpec == InitMerge /\ [][NextMerge]_vars

\* every call of the pipeline returns and the orchestrator keeps ticking
LiveMergeSpec == InitMerge /\ [][NextMerge]_vars /\ WF_vars(NextMerge)

\* C9: within one invocation of merge_similar_groups each group id takes part
\* in at most one successful merge: no id is in two entries of the pass's log,
\* whether as survivor or as deleted group.
C9_OneMergePerGroupPerPass ==
    \A p, q \in 1..Len(merged_log) :
        p # q => {merged_log[p][1], merged_log[p][2]} \cap
                 {merged_log[q][1], merged_log[q][2]} = {}

\* two successful merges in the same pass
C9_Witness ==
    /\ phase = "merging"
    /\ Len(merged_log) = 2
    /\ merged_pairs_count = 2

ZeroMergePassDone ==
    /\ phase = "merging"
    /\ MergeLoopDone
    /\ merged_pairs_count = 0

\* C10: every invocation of merge_similar_groups is one pass that terminates;
\* each successful merge strictly reduces the number of groups; and with no
\* articles or groups added in between, after finitely many passes a pass
\* performs zero merges.
C10_MergeConverges ==
    /\ [](phase = "merging" => <>(phase = "idle"))
    /\ [][ (merged_pairs_count' = merged_pairs_count + 1) =>
              Cardinality(DOMAIN groups') < Cardinality(DOMAIN groups) ]_vars
    /\ <>ZeroMergePassDone

\* a pass that ends with zero merges after earlier merges deleted groups
C10_Witness ==
    /\ ZeroMergePassDone
    /\ Cardinality(DOMAIN groups) < nextGroupId - 1
    /\ Len(merge_list) >= 2

(***************************************************************************)
(* Signature engine and similarity scorer.  Relevance scores are held in   *)
(* tenths, similarity scores in units of 1/SCALE, instants in hours.       *)
(***************************************************************************)
RelUnit == 10

\* min_relevance = 0.7 of get_primary_entities
PRIMARY_RELEVANCE_MIN == 7

CORE_ENTITY_BONUS == 2000
CORE_ENTITY_TYPES == {"product", "organization", "technology"}
SOURCE_BONUS == 300
TIME_BONUS_MAX == 500
TIME_BONUS_HOURS == 48
TIME_PENALTY_MAX == 300
TIME_PENALTY_HOURS == 168

WEIGHT_ENTITY == 4000
WEIGHT_COMPANY == 2500
WEIGHT_CVE == 1500
WEIGHT_EVENT == 1000

NoDate == 0 - 1

RECURSIVE SumSeq(_)
SumSeq(s) == IF s = <<>> THEN 0 ELSE Head(s) + SumSeq(Tail(s))

\* sorted(s, key=..., reverse=True) with keys[k] the key of s[k]: descending by
\* key, equal keys keep their order in the input
RECURSIVE InsertPairDesc(_, _)
InsertPairDesc(sorted, x) ==
    IF sorted = <<>> THEN <<x>>
    ELSE IF x[1] > Head(sorted)[1] THEN <<x>> \o sorted
    ELSE <<Head(sorted)>> \o InsertPairDesc(Tail(sorted), x)

RECURSIVE SortPairsDesc(_)
SortPairsDesc(s) ==
    IF s = <<>> THEN <<>>
    ELSE InsertPairDesc(SortPairsDesc(SubSeq(s, 1, Len(s) - 1)), s[Len(s)])

SortByKeyDesc(s, keys) ==
    LET sorted == SortPairsDesc([ k \in 1..Len(s) |-> <<keys[k], s[k]>> ])
    IN [ k \in 1..Len(s) |-> sorted[k][2] ]

\* the rows of article_entities (joined with entity_profiles) of one article
\* with relevance_score >= 0.7, ORDER BY relevance_score DESC (rows of equal
\* relevance in entity_id order)
get_primary_entities(rows) ==
    LET prim == { r \in rows : r.relevance_score >= PRIMARY_RELEVANCE_MIN }
        ids  == SetToAscSeq({ r.entity_id : r \in prim })
        asc  == [ k \in 1..Len(ids) |-> CHOOSE r \in prim : r.entity_id = ids[k] ]
    IN SortByKeyDesc(asc, [ k \in 1..Len(asc) |-> asc[k].relevance_score ])

\* generate_article_signature on the stored rows of an article
generate_article_signature(art) ==
    [ published_date   |-> art.published_date,
      source           |-> art.source,
      primary_entities |-> get_primary_entities(art.entities),
      companies        |-> SetToAscSeq(art.companies),
      cves             |-> SetToAscSeq(art.cves),
      events           |-> SetToAscSeq(art.events) ]

\* names in the order of their first insertion into a counts dict
RECURSIVE FirstAppearance(_, _)
FirstAppearance(s, seen) ==
    IF s = <<>> THEN <<>>
    ELSE IF Head(s) \in seen THEN FirstAppearance(Tail(s), seen)
    ELSE <<Head(s)>> \o FirstAppearance(Tail(s), seen \cup {Head(s)})

RECURSIVE Concat(_)
Concat(ss) == IF ss = <<>> THEN <<>> ELSE Head(ss) \o Concat(Tail(ss))

CountIn(s, x) == Cardinality({ k \in 1..Len(s) : s[k] = x })

\* company_details / cve_details / event_details: one entry per name, in
\* dict order, then sorted by frequency (count / num_valid_articles) descending
NameDetails(lists) ==
    LET all   == Concat(lists)
        names == FirstAppearance(all, {})
        det   == [ k \in 1..Len(names) |-> [name |-> names[k], count |-> CountIn(all, names[k])] ]
    IN SortByKeyDesc(det, [ k \in 1..Len(det) |-> det[k].count ])

\* final_entity_details: one entry per entity id of the member signatures, in
\* entity_id order of the entity_profiles lookup, then sorted by
\* (frequency, avg_relevance) descending.  frequency = count / num_valid_articles
\* and avg_relevance = rel_sum / (RelUnit * count)
EntityDetails(sigs) ==
    LET mentions == Concat([ k \in 1..Len(sigs) |-> sigs[k].primary_entities ])
        ids == SetToAscSeq({ mentions[k].entity_id : k \in 1..Len(mentions) })
        det == [ k \in 1..Len(ids) |->
                   LET m == SelectSeq(mentions, LAMBDA e : e.entity_id = ids[k])
                   IN [ entity_id   |-> ids[k],
                        entity_type |-> m[1].entity_type,
                        count       |-> Len(m),
                        rel_sum     |-> SumSeq([ j \in 1..Len(m) |-> m[j].relevance_score ]) ] ]
        byAvg == SortByKeyDesc(det, [ k \in 1..Len(det) |-> (det[k].rel_sum * SCALE) \div det[k].count ])
    IN SortByKeyDesc(byAvg, [ k \in 1..Len(byAvg) |-> byAvg[k].count ])

\* generate_group_signature on the list of the members' article signatures
generate_group_signature(sigs) ==
    IF sigs = <<>>
    THEN [ num_valid_articles |-> 0, primary_entities |-> <<>>, companies |-> <<>>,
           cves |-> <<>>, events |-> <<>>, latest_published_date |-> NoDate,
           member_sources |-> {} ]
    ELSE [ num_valid_articles |-> Len(sigs),
           primary_entities |-> EntityDetails(sigs),
           companies |-> NameDetails([ k \in 1..Len(sigs) |-> sigs[k].companies ]),
           cves      |-> NameDetails([ k \in 1..Len(sigs) |-> sigs[k].cves ]),
           events    |-> NameDetails([ k \in 1..Len(sigs) |-> sigs[k].events ]),
           latest_published_date |->
               LET dates == { sigs[k].published_date : k \in 1..Len(sigs) } \ {NoDate}
               IN IF dates = {} THEN NoDate
                  ELSE CHOOSE d \in dates : \A e \in dates : e <= d,
           member_sources |-> { sigs[k].source : k \in 1..Len(sigs) } \ {""} ]

\* entity_score / max_possible_score: every factor frequency * avg_relevance
\* is rel_sum / (RelUnit * num_valid_articles), so the quotient is
\* sum(article_relevance * rel_sum) / (RelUnit * sum(rel_sum))
EntitySimilarity(asig, gsig) ==
    LET ae == asig.primary_entities
        ge == gsig.primary_entities
        ArticleRelevance(id) ==
            LET m == SelectSeq(ae, LAMBDA e : e.entity_id = id)
            IN IF m = <<>> THEN 0 ELSE m[Len(m)].relevance_score
        num == SumSeq([ k \in 1..Len(ge) |-> ArticleRelevance(ge[k].entity_id) * ge[k].rel_sum ])
        den == SumSeq([ k \in 1..Len(ge) |-> ge[k].rel_sum ])
    IN IF ae # <<>> /\ ge # <<>> /\ den > 0 THEN (SCALE * num) \div (RelUnit * den) ELSE 0

\* a Jaccard index that takes two empty name sets for equal sets
JaccardSimilarity_EmptyEqual(articleNames, groupDetails) ==
    LET A == SeqToSet(articleNames)
        G == { groupDetails[k].name : k \in 1..Len(groupDetails) }
    IN IF A \cup G # {}
       THEN (SCALE * Cardinality(A \cap G)) \div Cardinality(A \cup G)
       ELSE SCALE

\* Jaccard index of the article's names and the group's names
JaccardSimilarity(articleNames, groupDetails) ==
    LET A == SeqToSet(articleNames)
        G == { groupDetails[k].name : k \in 1..Len(groupDetails) }
    IN IF A # {} /\ G # {}
       THEN (SCALE * Cardinality(A \cap G)) \div Cardinality(A \cup G)
       ELSE 0

\* share of the group's event frequencies that the article's events cover
EventSimilarity(asig, gsig) ==
    LET A == SeqToSet(asig.events)
        ge == gsig.events
        num == SumSeq([ k \in 1..Len(ge) |-> IF ge[k].name \in A THEN ge[k].count ELSE 0 ])
        den == SumSeq([ k \in 1..Len(ge) |-> ge[k].count ])
    IN IF A # {} /\ ge # <<>> /\ den > 0 THEN (SCALE * num) \div den ELSE 0

Abs(x) == IF x < 0 THEN 0 - x ELSE x

\* a temporal adjustment whose penalty factor is not capped at 1.0
TemporalAdjustment_Uncapped(asig, gsig) ==
    IF asig.published_date = NoDate \/ gsig.latest_published_date = NoDate THEN 0
    ELSE LET hours_diff == Abs(asig.published_date - gsig.latest_published_date)
         IN IF hours_diff <= TIME_BONUS_HOURS
            THEN (TIME_BONUS_MAX * (TIME_BONUS_HOURS - hours_diff)) \div TIME_BONUS_HOURS
            ELSE IF hours_diff > TIME_PENALTY_HOURS
            THEN 0 - ((TIME_PENALTY_MAX * (hours_diff - TIME_PENALTY_HOURS))
                      \div TIME_PENALTY_HOURS)
            ELSE 0

TemporalAdjustment(asig, gsig) ==
    IF asig.published_date = NoDate \/ gsig.latest_published_date = NoDate THEN 0
    ELSE LET hours_diff == Abs(asig.published_date - gsig.latest_published_date)
         IN IF hours_diff <= TIME_BONUS_HOURS
            THEN (TIME_BONUS_MAX * (TIME_BONUS_HOURS - hours_diff)) \div TIME_BONUS_HOURS
            ELSE IF hours_diff > TIME_PENALTY_HOURS
            THEN 0 - ((TIME_PENALTY_MAX *
                       Min2(hours_diff - TIME_PENALTY_HOURS, TIME_PENALTY_HOURS))
                      \div TIME_PENALTY_HOURS)
            ELSE 0

SourceBonus(asig, gsig) ==
    IF asig.source # "" /\ asig.source \in gsig.member_sources THEN SOURCE_BONUS ELSE 0

CoreEntityBonus(asig, gsig) ==
    IF asig.primary_entities = <<>> \/ gsig.primary_entities = <<>> THEN 0
    ELSE LET ae == asig.primary_entities
             ge == gsig.primary_entities
             top_article_entity ==
                 SortByKeyDesc(ae, [ k \in 1..Len(ae) |-> ae[k].relevance_score ])[1]
             top_group_entity ==
                 SortByKeyDesc(ge, [ k \in 1..Len(ge) |-> ge[k].rel_sum ])[1]
         IN IF /\ top_article_entity.entity_id = top_group_entity.entity_id
               /\ top_article_entity.entity_type \in CORE_ENTITY_TYPES
            THEN CORE_ENTITY_BONUS ELSE 0

CompositeOf(e, c, v, ev) ==
    (WEIGHT_ENTITY * e + WEIGHT_COMPANY * c + WEIGHT_CVE * v + WEIGHT_EVENT * ev) \div SCALE

calculate_article_to_group_similarity(asig, gsig) ==
    LET e    == EntitySimilarity(asig, gsig)
        c    == JaccardSimilarity(asig.companies, gsig.companies)
        v    == JaccardSimilarity(asig.cves, gsig.cves)
        ev   == EventSimilarity(asig, gsig)
        base == CompositeOf(e, c, v, ev)
        t    == TemporalAdjustment(asig, gsig)
        sb   == SourceBonus(asig, gsig)
        cb   == CoreEntityBonus(asig, gsig)
    IN [ entity_similarity  |-> e,
         company_similarity |-> c,
         cve_similarity     |-> v,
         event_similarity   |-> ev,
         composite_score    |-> Max2(0, Min2(SCALE, base + t + sb + cb)),
         temporal_adjustment  |-> t,
         source_bonus         |-> sb,
         core_entity_bonus    |-> cb,
         base_composite_score |-> base ]

(***************************************************************************)
(* Harness of the scorer: one article against a group of one or more       *)
(* member articles, signatures built by the signature engine.              *)
(***************************************************************************)
MaxMembers == 2

ScoreEntityIds == {1, 2}

\* entity_profiles.entity_type of the entities
EntityTypeOf(e) == IF e = 1 THEN "organization" ELSE "person"

\* relevance values stored in article_entities: float(entity.get("relevance", 1.0))
\* of the LLM reply, written as it comes (below the 0.7 cut, at the cut, the top
\* of the requested range, above the requested range)
StoredRelevances == {5, 7, 10, 15}

EntityRow(e, r) == [entity_id |-> e, entity_type |-> EntityTypeOf(e), relevance_score |-> r]

EntityRowSets ==
    UNION { { { EntityRow(e, f[e]) : e \in S } : f \in [S -> StoredRelevances] } :
            S \in SUBSET ScoreEntityIds }

\* the stored rows of an article under enrichment
ScoreArticles ==
    [ entities : EntityRowSets, companies : SUBSET {1, 2}, cves : SUBSET {1},
      events : SUBSET {1}, published_date : {100, 130, 300, 500}, source : {"s1", "s2"} ]

\* the articles the group members are drawn from
MemberArticles ==
    { [ entities |-> {EntityRow(1, 10)}, companies |-> {1}, cves |-> {1},
        events |-> {1}, published_date |-> 100, source |-> "s1" ],
      [ entities |-> {EntityRow(1, 7), EntityRow(2, 10)}, companies |-> {1, 2}, cves |-> {},
        events |-> {}, published_date |-> 180, source |-> "s2" ],
      [ entities |-> {EntityRow(2, 15)}, companies |-> {2}, cves |-> {},
        events |-> {1}, published_date |-> 100, source |-> "s1" ],
      [ entities |-> {EntityRow(1, 5)}, companies |-> {}, cves |-> {},
        events |-> {}, published_date |-> 100, source |-> "s1" ] }

MemberLists == UNION { [1..n -> MemberArticles] : n \in 1..MaxMembers }

InitScore ==
    /\ groups = << >>
    /\ memberships = {}
    /\ nextGroupId = 1
    /\ articles = {}
    /\ empty_content = {}
    /\ InitExt
    /\ phase = "idle"
    /\ cache = <<>>
    /\ queue = <<>>
    /\ last = NoResult
    /\ merge_list = <<>>
    /\ mi = 1
    /\ mj = 2
    /\ processed_group_ids = {}
    /\ merged_pairs_count = 0
    /\ merge_errors = 0
    /\ merged_log = <<>>
    /\ d_in = EmptyHarness
    /\ d_out = EmptyHarness
    /\ s_in \in [ article : ScoreArticles, members : MemberLists ]
    /\ s_out = EmptyHarness

ArticleSignatureIn == generate_article_signature(s_in.article)

GroupSignatureIn ==
    generate_group_signature(
        [ k \in 1..Len(s_in.members) |-> generate_article_signature(s_in.members[k]) ])

\* the scoring of the article against the group in process_single_ungrouped_article
ScoreStep ==
    /\ s_out = EmptyHarness
    /\ s_out' = calculate_article_to_group_similarity(ArticleSignatureIn, GroupSignatureIn)
    /\ UNCHANGED <<storeVars, phase, groupVars, mergeVars, extVars, d_in, d_out, s_in>>

NextScore == ScoreStep

SpecScore == InitScore /\ [][NextScore]_vars

InUnitInterval(x) == 0 <= x /\ x <= SCALE

\* C7: for every article signature and every group signature produced by the
\* signature engine the entity, company, CVE and event scores are each in
\* [0,1] and the composite score is in [0,1].
C7_ScoresInUnitInterval ==
    (s_out # EmptyHarness) =>
        /\ InUnitInterval(s_out.entity_similarity)
        /\ InUnitInterval(s_out.company_similarity)
        /\ InUnitInterval(s_out.cve_similarity)
        /\ InUnitInterval(s_out.event_similarity)
        /\ InUnitInterval(s_out.composite_score)

(***************************************************************************)
(* The decision logic under two base thresholds: the same article, the     *)
(* same candidate scores and the same arbitration reply, decided once with *)
(* threshold_rules["base"] = base and once with the raised base.           *)
(***************************************************************************)
\* values of threshold_rules["base"]; the lowest and the highest reach the clamp
BaseThresholds == {500, 3000, 4000, 4500, 9500}

\* best scores: every multiple of 0.01
MonoScores == { x \in 0..SCALE : x % 100 = 0 }

MonoGaps == {0, 799, 800, 3000}

\* no reply, a candidate id, the literal None, an unparsable sentence
MonoReplies == { <<>>, <<"3">>, <<"N", "o", "n", "e">>, <<"G", "r", "o", "u", "p", " ", "1">> }

MonoCategories == { "Cybersecurity & Data Privacy", "Other" }

MonoSizes == {1, 11}

MonoInputs ==
    [ n : {1, 2, MaxCandidates}, category : MonoCategories, size : MonoSizes,
      best : MonoScores, gap : MonoGaps, reply : MonoReplies,
      base : BaseThresholds, raised : BaseThresholds ]

\* the sorted group_scores list of an input under a base threshold
GroupScoresAtBase(in, base_threshold) ==
    [ k \in 1..in.n |->
        [ group_id |-> DecideGroupIds[k],
          score |-> IF k = 1 THEN in.best
                    ELSE IF k = 2 THEN Max2(0, in.best - in.gap)
                    ELSE 0,
          dynamic_threshold |->
              _calculate_dynamic_threshold(IF k = 1 THEN in.category ELSE "Other",
                                           IF k = 1 THEN in.size ELSE 2,
                                           base_threshold) ] ]

InitMono ==
    /\ groups = << >>
    /\ memberships = {}
    /\ nextGroupId = 1
    /\ articles = {}
    /\ empty_content = {}
    /\ InitExt
    /\ phase = "idle"
    /\ cache = <<>>
    /\ queue = <<>>
    /\ last = NoResult
    /\ merge_list = <<>>
    /\ mi = 1
    /\ mj = 2
    /\ processed_group_ids = {}
    /\ merged_pairs_count = 0
    /\ merge_errors = 0
    /\ merged_log = <<>>
    /\ d_in \in { in \in MonoInputs : in.base < in.raised /\ (in.n = 1 => in.gap = 0) }
    /\ d_out = EmptyHarness
    /\ s_in = EmptyHarness
    /\ s_out = EmptyHarness

\* the decision block run on the input under the base and under the raised base
MonoStep ==
    /\ d_out = EmptyHarness
    /\ d_out' = [ kind   |-> "compared",
                  low    |-> Decide(GroupScoresAtBase(d_in, d_in.base), d_in.reply),
                  high   |-> Decide(GroupScoresAtBase(d_in, d_in.raised), d_in.reply),
                  thr_low  |-> GroupScoresAtBase(d_in, d_in.base)[1].dynamic_threshold,
                  thr_high |-> GroupScoresAtBase(d_in, d_in.raised)[1].dynamic_threshold ]
    /\ UNCHANGED <<storeVars, phase, groupVars, mergeVars, extVars, d_in, s_in, s_out>>

NextMono == MonoStep

SpecMono == InitMono /\ [][NextMono]_vars

\* C11: for the same article, candidate scores and arbitration reply, raising
\* the base threshold never turns a create-new-group decision into an attach
\* decision.
C11_ThresholdMonotone ==
    (d_out.kind = "compared" /\ d_out.low.decision = "create_new") =>
        d_out.high.decision = "create_new"

\* a new group decided by arbitration under the base and, the threshold of the
\* best group having risen, without arbitration under the raised base
C11_Witness ==
    /\ d_out.kind = "compared"
    /\ d_out.thr_low < d_out.thr_high
    /\ d_out.low.decision = "create_new"
    /\ d_out.low.llm_check_triggered
    /\ d_out.high.decision = "create_new"
    /\ ~d_out.high.llm_check_triggered


(***************************************************************************)
(* Entity enrichment: extract_entities_for_all_articles and the entity     *)
(* tables it writes.  A row of article_entities is a record                *)
(* [article_id, entity_id, relevance_score]; the table is a bag so that    *)
(* two rows with one key are representable.                                *)
(***************************************************************************)
NumEnrichArticles == 2
MaxEnrichRuns == 2

EnrichNames == <<"acme">>
\* relevance values the reply carries, in tenths: the default 1.0 and a
\* value above 1 (float() of the reply is stored as it is)
EnrichRelevances == {10, 15}

RowCount(rows) == BagCardinality(rows)
RowKeys(rows) == { <<r.article_id, r.entity_id>> : r \in BagToSet(rows) }
RowsWithKey(rows, a, e) ==
    { r \in BagToSet(rows) : r.article_id = a /\ r.entity_id = e }

\* get_articles_missing_entity_extraction: the articles with no
\* article_entities row
get_articles_missing_entity_extraction(arts, rows) ==
    { a \in arts : \A r \in BagToSet(rows) : r.article_id # a }

\* insert_entity: the row with that (entity_name, entity_type) gets its
\* mention_count raised, or a new row is inserted; returns the tables' new
\* state and the entity_id
FindEntity(profiles, name, type) ==
    { i \in DOMAIN profiles :
        profiles[i].entity_name = name /\ profiles[i].entity_type = type }

\* the description parameter bound to SQL NULL (Python None)
NullDescription == "<NULL>"

\* on a hit: mention_count + 1 and description = COALESCE(?, description);
\* otherwise a new row with mention_count 1
insert_entity(profiles, name, type, description) ==
    LET found == FindEntity(profiles, name, type) IN
    IF found # {}
    THEN LET id == CHOOSE i \in found : TRUE IN
         [ profiles  |-> [profiles EXCEPT ![id].mention_count = @ + 1,
                                          ![id].description =
                                              IF description # NullDescription
                                              THEN description ELSE @],
           entity_id |-> id ]
    ELSE [ profiles  |-> Append(profiles,
                           [entity_name |-> name, entity_type |-> type,
                            description |-> description, mention_count |-> 1]),
           entity_id |-> Len(profiles) + 1 ]

\* variant: a plain INSERT into a table without the primary key
link_entity_to_article_plain(rows, article_id, entity_id, relevance) ==
    rows (+) SetToBag({ [article_id |-> article_id, entity_id |-> entity_id,
                         relevance_score |-> relevance] })

\* link_entity_to_article: INSERT OR REPLACE on the key (article_id, entity_id)
link_entity_to_article(rows, article_id, entity_id, relevance) ==
    LET kept == BagToSet(rows) \ RowsWithKey(rows, article_id, entity_id) IN
    [ r \in kept |-> rows[r] ]
      (+) SetToBag({ [article_id |-> article_id, entity_id |-> entity_id,
                      relevance_score |-> relevance] })

\* One reply of the model for a batch, as the loop over batch_results sees it:
\* for every (article id, entity name) either no entity (or insert_entity
\* returned None), or an entity whose link was written with a relevance, or an
\* entity whose link failed.  The reply names article ids freely: the loop
\* does not compare them with the batch.
EntityOutcomes ==
    { [kind |-> "absent", relevance |-> 0], [kind |-> "unlinked", relevance |-> 0] }
      \cup [kind : {"linked"}, relevance : EnrichRelevances]
EnrichReplies(arts) == [arts \X DOMAIN EnrichNames -> EntityOutcomes]

PairSeq(arts) ==
    LET as == SetToAscSeq(arts)
        n  == Len(EnrichNames)
    IN [ k \in 1..(Len(as) * n) |-> << as[((k - 1) \div n) + 1], ((k - 1) % n) + 1 >> ]

\* the loop over batch_results and over each article's entities
RECURSIVE StoreEntities(_, _, _, _)
StoreEntities(pairs, reply, profiles, rows) ==
    IF pairs = <<>> THEN [profiles |-> profiles, rows |-> rows]
    ELSE LET p   == Head(pairs)
             out == reply[p]
         IN IF out.kind = "absent"
            THEN StoreEntities(Tail(pairs), reply, profiles, rows)
            ELSE LET ins == insert_entity(profiles, EnrichNames[p[2]], "organization", "")
                 IN StoreEntities(Tail(pairs), reply, ins.profiles,
                        IF out.kind = "unlinked" THEN rows
                        ELSE link_entity_to_article(rows, p[1], ins.entity_id, out.relevance))

\* extract_entities_for_all_articles, up to the chunking of the selection
EnrichStart ==
    /\ enrich_pc = "idle"
    /\ enrich_runs < MaxEnrichRuns
    /\ \E selected \in { get_articles_missing_entity_extraction(articles, article_entities) } :
         /\ enrich_queue' = selected
         /\ enrich_before' = [count |-> RowCount(article_entities), selected |-> selected]
    /\ enrich_pc' = "running"
    /\ UNCHANGED <<storeVars, phase, groupVars, mergeVars, harnessVars,
                   entityVars, enrich_runs, trendVars, orchVars>>

\* one chunk of chunk_summaries sent to extract_entities_from_batch (no
\* response and an unparsable response give no entities) and the storing of
\* what came back
EnrichBatch ==
    /\ enrich_pc = "running"
    /\ enrich_queue # {}
    /\ \E batch \in SUBSET enrich_queue \ {{}}, reply \in EnrichReplies(articles) :
         \E res \in { StoreEntities(PairSeq(articles), reply, entity_profiles, article_entities) } :
           /\ enrich_queue' = enrich_queue \ batch
           /\ entity_profiles' = res.profiles
           /\ nextEntityId' = Len(res.profiles) + 1
           /\ article_entities' = res.rows
    /\ UNCHANGED <<storeVars, phase, groupVars, mergeVars, harnessVars,
                   enrich_pc, enrich_runs, enrich_before, trendVars, orchVars>>

\* the run returns (at once when the selection was empty)
EnrichFinish ==
    /\ enrich_pc = "running"
    /\ enrich_queue = {}
    /\ enrich_pc' = "idle"
    /\ enrich_runs' = enrich_runs + 1
    /\ UNCHANGED <<storeVars, phase, groupVars, mergeVars, harnessVars,
                   entityVars, enrich_queue, enrich_before, trendVars, orchVars>>

InitEnrich ==
    /\ groups = << >>
    /\ memberships = {}
    /\ nextGroupId = 1
    /\ articles = 1..NumEnrichArticles
    /\ empty_content = {}
    /\ InitExt
    /\ phase = "idle"
    /\ cache = << >>
    /\ queue = << >>
    /\ last = NoResult
    /\ merge_list = << >>
    /\ mi = 1
    /\ mj = 2
    /\ processed_group_ids = {}
    /\ merged_pairs_count = 0
    /\ merge_errors = 0
    /\ merged_log = <<>>
    /\ d_in = EmptyHarness
    /\ d_out = EmptyHarness
    /\ s_in = EmptyHarness
    /\ s_out = EmptyHarness

NextEnrich == EnrichStart \/ EnrichBatch \/ EnrichFinish

SpecEnrich == InitEnrich /\ [][NextEnrich]_vars

NoDuplicateLinks ==
    \A r \in BagToSet(article_entities) :
        Cardinality(RowsWithKey(article_entities, r.article_id, r.entity_id)) = 1
        /\ article_entities[r] = 1

\* a run after the first has done all its work and is about to return
LaterRunEnded == enrich_pc = "running" /\ enrich_queue = {} /\ enrich_runs >= 1

\* C12 as stated: a second run over the same articles creates no duplicate
\* (article, entity) row and leaves the number of article_entities rows
\* unchanged.
C12_EnrichIdempotent ==
    LaterRunEnded =>
        /\ NoDuplicateLinks
        /\ RowCount(article_entities) = enrich_before.count

\* C12, amended: no run creates a duplicate (article, entity) row; a later run
\* leaves the number of article_entities rows unchanged when every article
\* had a row before it, and otherwise never lowers it: the articles the
\* earlier run left without rows are sent again.
C12_EnrichIdempotentAmended ==
    /\ NoDuplicateLinks
    /\ LaterRunEnded =>
          /\ RowCount(article_entities) >= enrich_before.count
          /\ (enrich_before.selected = {} =>
                RowCount(article_entities) = enrich_before.count)

C12_Witness ==
    /\ LaterRunEnded
    /\ enrich_before.selected = {}
    /\ RowCount(article_entities) >= 2
    /\ \E i \in DOMAIN entity_profiles : entity_profiles[i].mention_count >= 2


(***************************************************************************)
(* Trend synthesis: save_trends, cleanup_old_trends, ensure_minimum_trends *)
(* and run_trending_analysis.  Instants are hours; an article published    *)
(* on day Published(a) has the instant 24 * Published(a).                  *)
(***************************************************************************)
TREND_WINDOW_HOURS == 48
TREND_ARTICLE_LIMIT == 10
TREND_ENTITY_LIMIT == 5

NumTrendGroups == 3
MaxTrendId == 3
MaxMinTrends == 3
MaxTicks == 2
TickHours == 30

PublishedHour(a) == 24 * Published(a)
IsRecent(a, t) == PublishedHour(a) >= t - TREND_WINDOW_HOURS
Take(s, n) == SubSeq(s, 1, Min2(n, Len(s)))
Reverse(s) == [ k \in 1..Len(s) |-> s[Len(s) + 1 - k] ]

TrendLabels(tg) == { tg[t].trend_label : t \in DOMAIN tg }

\* article_count of the popular-groups query: the group's membership rows
\* joined with articles published inside the window
RecentArticleCount(arts, ms, g, t) ==
    Cardinality({ a \in MembersOf(ms, g) \cap arts : IsRecent(a, t) })

\* variant: the query without its ORDER BY
PopularGroupsQuery_Unordered(gs, arts, ms, tg, t, limit) ==
    Take(SetToAscSeq({ g \in DOMAIN gs :
                         /\ RecentArticleCount(arts, ms, g, t) > 0
                         /\ gs[g].group_label \notin TrendLabels(tg) }),
         limit)

\* the popular-groups query of ensure_minimum_trends: groups with a recent
\* article whose label is no trend label, ORDER BY article_count DESC,
\* created_at DESC (group ids grow with created_at), LIMIT limit
PopularGroupsQuery(gs, arts, ms, tg, t, limit) ==
    LET rows == { g \in DOMAIN gs :
                    /\ RecentArticleCount(arts, ms, g, t) > 0
                    /\ gs[g].group_label \notin TrendLabels(tg) }
        newest == Reverse(SetToAscSeq(rows))
    IN Take(SortByKeyDesc(newest,
                [ k \in 1..Len(newest) |-> RecentArticleCount(arts, ms, newest[k], t) ]),
            limit)

\* the article query of ensure_minimum_trends: the group's articles,
\* ORDER BY published_date DESC LIMIT 10
TrendArticlesOfGroup(arts, ms, g) ==
    SeqToSet(Take(SortByPublishedDesc(MembersOf(ms, g) \cap arts), TREND_ARTICLE_LIMIT))

\* the entity query of ensure_minimum_trends: entities of those articles,
\* GROUP BY entity_id ORDER BY count DESC LIMIT 5
TopEntitiesOf(profiles, rows, article_ids) ==
    LET Count(e) == Cardinality({ r \in BagToSet(rows) :
                                    r.entity_id = e /\ r.article_id \in article_ids })
        ents == SetToAscSeq({ e \in DOMAIN profiles : Count(e) > 0 })
    IN SeqToSet(Take(SortByKeyDesc(ents, [ k \in 1..Len(ents) |-> Count(ents[k]) ]),
                     TREND_ENTITY_LIMIT))

\* INSERT INTO trending_groups: created_at is CURRENT_TIMESTAMP
InsertTrend(tg, id, category, label, t) ==
    (id :> [category |-> category, trend_label |-> label, created_at |-> t]) @@ tg

\* link_entity_to_trend: INSERT OR REPLACE on the key (trend_id, entity_id)
link_entity_to_trend(te, trend_id, entity_id) == te \cup { <<trend_id, entity_id>> }

\* rows of a child table left after DELETE FROM trending_groups: ON DELETE
\* CASCADE acts only when the connection enforces foreign keys
CascadeTrendRows(rows, col, deleted) ==
    IF ForeignKeysEnforced THEN { r \in rows : r[col] \notin deleted } ELSE rows

OldTrends(tg, t) == { id \in DOMAIN tg : tg[id].created_at < t - TREND_WINDOW_HOURS }

\* cleanup_old_trends, called by the pipeline run and by the web process's
\* cleanup_scheduler thread
CleanupOldTrends(by) ==
    /\ \E old \in { OldTrends(trending_groups, now) } :
         /\ trending_groups' = [ id \in DOMAIN trending_groups \ old |-> trending_groups[id] ]
         /\ trending_group_memberships' = CascadeTrendRows(trending_group_memberships, 2, old)
         /\ trend_entities' = CascadeTrendRows(trend_entities, 1, old)
         /\ trend_last' = [op |-> "cleanup", by |-> by, deleted |-> old, at |-> now,
                           changed |-> old # {}]
    /\ UNCHANGED nextTrendId

\* the loop of ensure_minimum_trends over groups_to_use
RECURSIVE PromoteGroups(_, _, _, _, _, _, _, _)
PromoteGroups(gseq, gs, arts, ms, profiles, rows, t, st) ==
    IF gseq = <<>> THEN st
    ELSE LET g   == Head(gseq)
             ids == TrendArticlesOfGroup(arts, ms, g)
         IN IF ids = {}
            THEN PromoteGroups(Tail(gseq), gs, arts, ms, profiles, rows, t, st)
            ELSE PromoteGroups(Tail(gseq), gs, arts, ms, profiles, rows, t,
                   [ tg   |-> InsertTrend(st.tg, st.next, gs[g].main_topic, gs[g].group_label, t),
                     next |-> st.next + 1,
                     tgm  |-> st.tgm \cup { <<a, st.next>> : a \in ids },
                     te   |-> st.te \cup { <<st.next, e>> : e \in TopEntitiesOf(profiles, rows, ids) },
                     promoted |-> st.promoted \cup {g} ])

\* what the trend floor speaks of: the groups with an article published in
\* the window whose label is no trend label, each with its number of
\* articles in the window and its number of articles
EligibleGroups(gs, arts, ms, tg, t) ==
    LET E == { g \in DOMAIN gs :
                 /\ \E a \in MembersOf(ms, g) \cap arts : IsRecent(a, t)
                 /\ gs[g].group_label \notin TrendLabels(tg) }
    IN [ g \in E |-> [ recent |-> Cardinality({ a \in MembersOf(ms, g) \cap arts : IsRecent(a, t) }),
                       total  |-> Cardinality(MembersOf(ms, g) \cap arts) ] ]

\* ensure_minimum_trends, called by run_trending_analysis and by the web
\* process on every /api/trending request
EnsureMinimumTrends(by, min_count) ==
    /\ \E current_count \in { Cardinality(DOMAIN trending_groups) } :
         \E st \in { IF current_count >= min_count
                     THEN [ tg |-> trending_groups, next |-> nextTrendId,
                            tgm |-> trending_group_memberships, te |-> trend_entities,
                            promoted |-> {} ]
                     ELSE PromoteGroups(
                            Take(PopularGroupsQuery(groups, articles, memberships, trending_groups,
                                                    now, (min_count - current_count) * 2),
                                 min_count - current_count),
                            groups, articles, memberships, entity_profiles, article_entities, now,
                            [ tg |-> trending_groups, next |-> nextTrendId,
                              tgm |-> trending_group_memberships, te |-> trend_entities,
                              promoted |-> {} ]) } :
           /\ st.next <= MaxTrendId + 1
           /\ trending_groups' = st.tg
           /\ nextTrendId' = st.next
           /\ trending_group_memberships' = st.tgm
           /\ trend_entities' = st.te
           /\ trend_last' = [ op |-> "ensure", by |-> by, min_count |-> min_count,
                              before_count |-> current_count,
                              eligible |-> EligibleGroups(groups, articles, memberships,
                                                          trending_groups, now),
                              promoted |-> st.promoted,
                              changed |-> <<st.tg, st.next, st.tgm, st.te>> #
                                          <<trending_groups, nextTrendId,
                                            trending_group_memberships, trend_entities>> ]


\* Trends as identify_trends_in_category hands them to save_trends.  A trend
\* lists article ids (none for "tb"; has_bad_article: one more entry that
\* int() rejects) and
\* key entities (entities_ok = FALSE: an entry that is no object with a string
\* name); row_error: the INSERT of the trend row raises sqlite3.Error.
TrendOk(label, arts, names) ==
    [ trend_label |-> label, articles |-> arts, has_bad_article |-> FALSE,
      key_entities |-> names, entities_ok |-> TRUE, row_error |-> FALSE ]

TrendInputs ==
    { TrendOk("ta", {1, 2}, <<"acme">>),
      TrendOk("g1", {3}, <<>>),
      TrendOk("tb", {}, <<>>),
      [ TrendOk("ta", {1}, <<>>) EXCEPT !.has_bad_article = TRUE ],
      [ TrendOk("ta", {2}, <<>>) EXCEPT !.row_error = TRUE ],
      [ TrendOk("ta", {2}, <<"acme">>) EXCEPT !.entities_ok = FALSE ] }

MaxTrendsPerReply == 2

TrendsData == UNION { [1..n -> TrendInputs] : n \in 1..MaxTrendsPerReply }

\* the key_entities loop of save_trends for one trend
RECURSIVE LinkKeyEntities(_, _, _, _)
LinkKeyEntities(names, trend_id, profiles, te) ==
    IF names = <<>> THEN [profiles |-> profiles, te |-> te]
    ELSE LET ins == insert_entity(profiles, Head(names), "organization", NullDescription)
         IN LinkKeyEntities(Tail(names), trend_id, ins.profiles,
                            link_entity_to_trend(te, trend_id, ins.entity_id))

\* the loop of save_trends over trends_data["trends"] on one cursor; raised
\* is set when an exception other than sqlite3.Error leaves the loop
RECURSIVE SaveLoop(_, _, _, _)
SaveLoop(trends, category, t, st) ==
    IF trends = <<>> \/ st.raised THEN st
    ELSE LET tr == Head(trends) IN
         IF tr.row_error
         THEN SaveLoop(Tail(trends), category, t, [st EXCEPT !.ids = Append(@, 0)])
         ELSE LET id     == st.next
                  withId == [ st EXCEPT
                                !.tg   = InsertTrend(@, id, category, tr.trend_label, t),
                                !.next = @ + 1,
                                !.tgm  = @ \cup { <<a, id>> : a \in tr.articles },
                                !.ids  = Append(@, id) ]
              IN IF ~tr.entities_ok
                 THEN [ withId EXCEPT !.raised = TRUE ]
                 ELSE LET linked == LinkKeyEntities(tr.key_entities, id, withId.profiles, withId.te)
                      IN SaveLoop(Tail(trends), category, t,
                                  [ withId EXCEPT !.profiles = linked.profiles,
                                                  !.te = linked.te ])

\* save_trends: one connection, one commit after the loop; the outer
\* handler rolls the connection back
SaveTrends(category, trends_data) ==
    /\ \E st \in { SaveLoop(trends_data, category, now,
                     [ tg |-> trending_groups, next |-> nextTrendId,
                       tgm |-> trending_group_memberships, te |-> trend_entities,
                       profiles |-> entity_profiles, ids |-> <<>>, raised |-> FALSE ]) } :
         /\ st.next <= MaxTrendId + 1
         /\ IF st.raised
            THEN UNCHANGED <<trending_groups, nextTrendId, trending_group_memberships,
                             trend_entities, entity_profiles>>
            ELSE /\ trending_groups' = st.tg
                 /\ nextTrendId' = st.next
                 /\ trending_group_memberships' = st.tgm
                 /\ trend_entities' = st.te
                 /\ entity_profiles' = st.profiles
         /\ trend_last' = [ op |-> "save", by |-> "pipeline", input |-> trends_data,
                            ids |-> st.ids, rolled_back |-> st.raised,
                            changed |-> ~st.raised /\ st.next # nextTrendId ]

TrendCategories == <<"Other">>

\* get_articles_by_category_last_48h
ArticlesOfCategoryInWindow(gs, arts, ms, category, t) ==
    { a \in arts : /\ IsRecent(a, t)
                   /\ \E g \in GroupsOfArticle(ms, a) \cap DOMAIN gs :
                        gs[g].main_topic = category }

\* run_trending_analysis up to the category loop: cleanup_old_trends
RunTrendingAnalysis ==
    /\ trend_step = 0
    /\ CleanupOldTrends("pipeline")
    /\ trend_step' = 1
    /\ UNCHANGED <<storeVars, phase, groupVars, mergeVars, harnessVars, orchVars,
                   entityVars, enrichVars, now>>

\* one category of the loop with trends identified and saved
SynthesizeCategory ==
    /\ trend_step \in DOMAIN TrendCategories
    /\ ArticlesOfCategoryInWindow(groups, articles, memberships,
                                  TrendCategories[trend_step], now) # {}
    /\ \E trends_data \in TrendsData : SaveTrends(TrendCategories[trend_step], trends_data)
    /\ trend_step' = trend_step + 1
    /\ UNCHANGED <<storeVars, phase, groupVars, mergeVars, harnessVars, orchVars,
                   nextEntityId, article_entities, enrichVars, now>>

\* one category of the loop with no article in the window, no response, an
\* unparsable response or no trend in it: save_trends writes nothing
SkipCategory ==
    /\ trend_step \in DOMAIN TrendCategories
    /\ trend_step' = trend_step + 1
    /\ UNCHANGED <<storeVars, phase, groupVars, mergeVars, harnessVars, orchVars,
                   entityVars, enrichVars, trendTables, now, trend_last>>

\* the end of run_trending_analysis: ensure_minimum_trends
TrendFloor ==
    /\ trend_step = Len(TrendCategories) + 1
    /\ \E min_count \in 1..MaxMinTrends : EnsureMinimumTrends("pipeline", min_count)
    /\ trend_step' = 0
    /\ UNCHANGED <<storeVars, phase, groupVars, mergeVars, harnessVars, orchVars,
                   entityVars, enrichVars, now>>

\* the web process: one pass of the cleanup_scheduler thread
cleanup_scheduler ==
    /\ CleanupOldTrends("web")
    /\ UNCHANGED <<storeVars, phase, groupVars, mergeVars, harnessVars, orchVars,
                   entityVars, enrichVars, now, trend_step>>

\* the web process: a GET /api/trending request
get_trending_api ==
    /\ \E min_count \in 1..MaxMinTrends : EnsureMinimumTrends("web", min_count)
    /\ UNCHANGED <<storeVars, phase, groupVars, mergeVars, harnessVars, orchVars,
                   entityVars, enrichVars, now, trend_step>>

\* time passes
TrendTick ==
    /\ now < TREND_WINDOW_HOURS + TickHours * MaxTicks
    /\ now' = now + TickHours
    /\ UNCHANGED <<storeVars, phase, groupVars, mergeVars, harnessVars, orchVars,
                   entityVars, enrichVars, trendTables, trend_step, trend_last>>

InitTrend ==
    /\ groups = [ g \in 1..NumTrendGroups |->
                    [ main_topic  |-> IF g = 1 THEN "Cybersecurity & Data Privacy" ELSE "Other",
                      group_label |-> IF g = 2 THEN "g2" ELSE "g1" ] ]
    /\ memberships \in { { <<a, f[a]>> : a \in Articles } :
                           f \in { h \in [Articles -> 1..NumTrendGroups] : h[1] = 1 } }
    /\ nextGroupId = NumTrendGroups + 1
    /\ articles = Articles
    /\ empty_content = {}
    /\ entity_profiles = << [entity_name |-> "acme", entity_type |-> "organization",
                             description |-> "", mention_count |-> 1] >>
    /\ nextEntityId = 2
    /\ article_entities = SetToBag({ [article_id |-> 1, entity_id |-> 1, relevance_score |-> 10] })
    /\ InitEnrichIdle
    /\ InitOrchestrator
    /\ InitFloorIdle
    /\ InitTrendTables
    /\ now = TREND_WINDOW_HOURS
    /\ trend_step = 0
    /\ trend_last = NoTrendOp
    /\ phase = "idle"
    /\ cache = <<>>
    /\ queue = <<>>
    /\ last = NoResult
    /\ merge_list = <<>>
    /\ mi = 1
    /\ mj = 2
    /\ processed_group_ids = {}
    /\ merged_pairs_count = 0
    /\ merge_errors = 0
    /\ merged_log = <<>>
    /\ d_in = EmptyHarness
    /\ d_out = EmptyHarness
    /\ s_in = EmptyHarness
    /\ s_out = EmptyHarness

NextTrend ==
    \/ RunTrendingAnalysis
    \/ SynthesizeCategory
    \/ SkipCategory
    \/ TrendFloor
    \/ cleanup_scheduler
    \/ get_trending_api
    \/ TrendTick

SpecTrend == InitTrend /\ [][NextTrend]_vars


TrendCount == Cardinality(DOMAIN trending_groups)
FloorRan == trend_last.op = "ensure"
FloorNeeded == trend_last.min_count - trend_last.before_count
FloorEligible == DOMAIN trend_last.eligible

C14_CleanupLeavesNoOldTrend ==
    trend_last.op = "cleanup" =>
        /\ OldTrends(trending_groups, trend_last.at) = {}
        /\ \A r \in trending_group_memberships : r[2] \notin trend_last.deleted
        /\ \A r \in trend_entities : r[1] \notin trend_last.deleted

\* C15: the web process never writes to the store, neither in a request
\* handler nor in its background thread.
C15_WebNeverWrites ==
    (trend_last.op # "none" /\ trend_last.by = "web") => ~trend_last.changed

TrendFailed(tr) == tr.row_error \/ tr.has_bad_article \/ ~tr.entities_ok

TrendFullySaved(tr, id) ==
    /\ id \in DOMAIN trending_groups
    /\ ~tr.has_bad_article
    /\ \A a \in tr.articles : <<a, id>> \in trending_group_memberships
    /\ \A k \in DOMAIN tr.key_entities :
          \E e \in DOMAIN entity_profiles :
             /\ entity_profiles[e].entity_name = tr.key_entities[k]
             /\ <<id, e>> \in trend_entities

TrendNotSaved(id) ==
    /\ id \notin DOMAIN trending_groups
    /\ \A r \in trending_group_memberships : r[2] # id
    /\ \A r \in trend_entities : r[1] # id

\* C18: after save_trends every trend of the list is either saved whole (row,
\* memberships, entity links) or not at all, and every trend that did not
\* fail is saved whatever happened to its siblings.
C18_TrendsSavedAtomically ==
    trend_last.op = "save" =>
        \A i \in DOMAIN trend_last.input :
            LET tr == trend_last.input[i]
                id == IF i \in DOMAIN trend_last.ids THEN trend_last.ids[i] ELSE 0
            IN /\ (TrendFullySaved(tr, id) \/ TrendNotSaved(id))
               /\ (~TrendFailed(tr) => TrendFullySaved(tr, id))


(***************************************************************************)
(* The orchestrator: main() runs run_scrapers_and_analysis once, then      *)
(* sleeps and runs it again for ever.                                      *)
(***************************************************************************)
MaxOrchLog == 2

\* where a run of run_scrapers_and_analysis can fail
TickFaults == {"none", "setup", "scraper", "migration", "no_api_key", "analysis"}

\* what one run did: setup_database failing returns before the scrapers;
\* a scraper's or a migration's exception is logged where it happens; without
\* an API key the pipeline is skipped; an exception of the pipeline leaves
\* run_scrapers_and_analysis
RunOutcome(fault) ==
    [ fault    |-> fault,
      scrapers |-> fault # "setup",
      pipeline |-> fault \notin {"setup", "no_api_key", "analysis"},
      raised   |-> fault = "analysis" ]

Logged(log, outcome) ==
    LET l == Append(log, outcome)
    IN IF Len(l) > MaxOrchLog THEN Tail(l) ELSE l

\* variant: a loop without its "except Exception" handler
AfterTick_Uncaught(outcome) == IF outcome.raised THEN "stopped" ELSE "sleeping"

\* the loop's handlers after run_scrapers_and_analysis: an exception is
\* logged and followed by a sleep of 60 seconds
AfterTick(outcome) == IF outcome.raised THEN "backoff" ELSE "sleeping"

OrchUnchanged ==
    UNCHANGED <<storeVars, phase, groupVars, mergeVars, harnessVars,
                entityVars, enrichVars, trendVars, tickVars, floorVars>>

\* the run at startup; its exception is logged and the loop is entered
InitialRun ==
    /\ orch_pc = "initial"
    /\ \E fault \in TickFaults : orch_log' = Logged(orch_log, RunOutcome(fault))
    /\ orch_pc' = "sleeping"
    /\ UNCHANGED orch_stop
    /\ OrchUnchanged

\* time.sleep(interval_seconds) returns
WakeUp ==
    /\ orch_pc = "sleeping"
    /\ orch_pc' = "running"
    /\ UNCHANGED <<orch_log, orch_stop>>
    /\ OrchUnchanged

\* run_scrapers_and_analysis inside the loop
Tick ==
    /\ orch_pc = "running"
    /\ \E fault \in TickFaults :
         /\ orch_log' = Logged(orch_log, RunOutcome(fault))
         /\ orch_pc' = AfterTick(RunOutcome(fault))
         /\ orch_stop' = IF AfterTick(RunOutcome(fault)) = "stopped" THEN "exception" ELSE orch_stop
    /\ OrchUnchanged

\* time.sleep(60) of the exception handler returns
BackoffDone ==
    /\ orch_pc = "backoff"
    /\ orch_pc' = "sleeping"
    /\ UNCHANGED <<orch_log, orch_stop>>
    /\ OrchUnchanged

\* KeyboardInterrupt: caught inside the loop's try (break), uncaught during
\* the first run and during the handler's sleep
Interrupt ==
    /\ orch_pc # "stopped"
    /\ orch_pc' = "stopped"
    /\ orch_stop' = "interrupt"
    /\ UNCHANGED orch_log
    /\ OrchUnchanged

InitOrch ==
    /\ groups = << >>
    /\ memberships = {}
    /\ nextGroupId = 1
    /\ articles = Articles
    /\ empty_content = {}
    /\ InitExt
    /\ phase = "idle"
    /\ cache = <<>>
    /\ queue = <<>>
    /\ last = NoResult
    /\ merge_list = <<>>
    /\ mi = 1
    /\ mj = 2
    /\ processed_group_ids = {}
    /\ merged_pairs_count = 0
    /\ merge_errors = 0
    /\ merged_log = <<>>
    /\ d_in = EmptyHarness
    /\ d_out = EmptyHarness
    /\ s_in = EmptyHarness
    /\ s_out = EmptyHarness

OrchProgress == InitialRun \/ WakeUp \/ Tick \/ BackoffDone

NextOrch == InitialRun \/ WakeUp \/ Tick \/ BackoffDone \/ Interrupt

\* every sleep returns and every run ends
LiveOrchSpec == InitOrch /\ [][NextOrch]_vars /\ WF_vars(OrchProgress)

LastRunRaised == orch_log # <<>> /\ orch_log[Len(orch_log)].raised

\* C16: the loop ends only by an interrupt, and after a run that raised an
\* exception a later run starts (unless the interrupt comes first).
C16_NextTickRuns ==
    /\ [](orch_pc = "stopped" => orch_stop = "interrupt")
    /\ (LastRunRaised /\ orch_pc # "stopped") ~> (orch_pc = "running" \/ orch_stop = "interrupt")

C16_Witness ==
    /\ orch_pc = "running"
    /\ LastRunRaised
    /\ Len(orch_log) = MaxOrchLog


MaxSigMembers == 3

ListingOrders(n) == { p \in [1..n -> 1..n] : \A i, j \in 1..n : p[i] = p[j] => i = j }

\* a member list and a second listing of the same members
SigInputs ==
    UNION { [ members : [1..n -> MemberArticles], order : ListingOrders(n) ] :
            n \in 1..MaxSigMembers }

InitSig ==
    /\ groups = << >>
    /\ memberships = {}
    /\ nextGroupId = 1
    /\ articles = {}
    /\ empty_content = {}
    /\ InitExt
    /\ phase = "idle"
    /\ cache = <<>>
    /\ queue = <<>>
    /\ last = NoResult
    /\ merge_list = <<>>
    /\ mi = 1
    /\ mj = 2
    /\ processed_group_ids = {}
    /\ merged_pairs_count = 0
    /\ merge_errors = 0
    /\ merged_log = <<>>
    /\ d_in = EmptyHarness
    /\ d_out = EmptyHarness
    /\ s_in \in SigInputs
    /\ s_out = EmptyHarness

\* the group signature of the members listed in the order "order"
GroupSignatureListed(members, order) ==
    generate_group_signature(
        [ k \in 1..Len(members) |-> generate_article_signature(members[order[k]]) ])

\* two invocations of generate_group_signature
SigStep ==
    /\ s_out = EmptyHarness
    /\ s_out' = [ kind   |-> "signatures",
                  first  |-> GroupSignatureListed(s_in.members,
                                                  [ k \in 1..Len(s_in.members) |-> k ]),
                  second |-> GroupSignatureListed(s_in.members, s_in.order) ]
    /\ UNCHANGED <<storeVars, phase, groupVars, mergeVars, extVars, d_in, d_out, s_in>>

NextSig == SigStep

SpecSig == InitSig /\ [][NextSig]_vars

\* C19: generate_group_signature over the same members yields equal
\* signatures in whatever order the member ids are listed, the order of the
\* entities, companies, CVEs and events included.
C19_SignatureDeterministic ==
    (s_out # EmptyHarness /\ s_out.kind = "signatures") => s_out.first = s_out.second

(***************************************************************************)
(* An article without primary entities, companies and CVEs, scored against *)
(* the groups of the comparison list and decided under                      *)
(* DYNAMIC_THRESHOLD_RULES, the rules the pipeline passes.                  *)
(***************************************************************************)
\* members a group has beyond the listed ones, all with the stored rows of
\* its first member (0, and enough to pass the last size breakpoint)
ExtraMembers == {0, 10}

\* stored rows of an article whose entity, company and CVE signatures are
\* empty: no entity row, or only rows below the 0.7 cut
BlankArticles ==
    [ entities : { {}, {EntityRow(1, 5)} }, companies : { {} }, cves : { {} },
      events : SUBSET {1}, published_date : {100, 300}, source : {"s1", "s2"} ]

BlankCategories == { "Cybersecurity & Data Privacy", "Other", "Science & Environment" }

BlankGroups == [ members : MemberLists, extra : ExtraMembers, category : BlankCategories ]

\* a second group of the comparison list, of one member
BlankSecondGroups ==
    [ members : [1..1 -> MemberArticles], extra : {0}, category : {"Other"} ]

BlankGroupLists ==
    { <<g>> : g \in BlankGroups } \cup (BlankGroups \X BlankSecondGroups)

\* no reply, a candidate id, the literal None, an unparsable sentence
BlankReplies == { <<>>, <<"1">>, <<"N", "o", "n", "e">>, <<"G", "r", "o", "u", "p", " ", "1">> }

BlankInputs == [ article : BlankArticles, groups : BlankGroupLists, reply : BlankReplies ]

InitBlank ==
    /\ groups = << >>
    /\ memberships = {}
    /\ nextGroupId = 1
    /\ articles = {}
    /\ empty_content = {}
    /\ InitExt
    /\ phase = "idle"
    /\ cache = <<>>
    /\ queue = <<>>
    /\ last = NoResult
    /\ merge_list = <<>>
    /\ mi = 1
    /\ mj = 2
    /\ processed_group_ids = {}
    /\ merged_pairs_count = 0
    /\ merge_errors = 0
    /\ merged_log = <<>>
    /\ d_in = EmptyHarness
    /\ d_out = EmptyHarness
    /\ s_in \in BlankInputs
    /\ s_out = EmptyHarness

\* article_ids of a group: the listed members and the extra ones
BlankMemberRows(g) == g.members \o [ k \in 1..g.extra |-> g.members[1] ]

BlankGroupSignature(g) ==
    generate_group_signature(
        [ k \in 1..Len(BlankMemberRows(g)) |-> generate_article_signature(BlankMemberRows(g)[k]) ])

\* similarity_scores of the article against each group of the list
BlankSimilarities(in) ==
    [ k \in 1..Len(in.groups) |->
        calculate_article_to_group_similarity(generate_article_signature(in.article),
                                              BlankGroupSignature(in.groups[k])) ]

\* group_scores after the comparison loop and the sort by score
BlankGroupScores(in) ==
    SortByScoreDesc(
        [ k \in 1..Len(in.groups) |->
            [ group_id |-> k,
              score |-> BlankSimilarities(in)[k].composite_score,
              dynamic_threshold |->
                  _calculate_dynamic_threshold(in.groups[k].category,
                                               Len(BlankMemberRows(in.groups[k])),
                                               DEFAULT_SIMILARITY_THRESHOLD) ] ])

\* process_single_ungrouped_article up to the decision
BlankStep ==
    /\ s_out = EmptyHarness
    /\ s_out' = [ kind         |-> "blank",
                  similarities |-> BlankSimilarities(s_in),
                  group_scores |-> BlankGroupScores(s_in),
                  result       |-> Decide(BlankGroupScores(s_in), s_in.reply) ]
    /\ UNCHANGED <<storeVars, phase, groupVars, mergeVars, extVars, d_in, d_out, s_in>>

NextBlank == BlankStep

SpecBlank == InitBlank /\ [][NextBlank]_vars

BlankDecided == s_out # EmptyHarness /\ s_out.kind = "blank"

\* the most the event share, the time bonus and the source bonus add up to
BlankScoreCap == WEIGHT_EVENT + TIME_BONUS_MAX + SOURCE_BONUS

\* C20 as stated: an article whose entity, company and CVE signatures are all
\* empty has similarity 0 against every group, and the grouping decision for
\* it is create new group.
C20_BlankArticleScoresZero ==
    BlankDecided =>
        /\ \A k \in 1..Len(s_out.similarities) : s_out.similarities[k].composite_score = 0
        /\ s_out.result.decision = "create_new"

\* C20 amended: an article whose entity, company and CVE signatures are all
\* empty has entity, company and CVE similarity 0 against every group, its
\* composite score is at most the event weight plus the time and source
\* bonuses (0.18), below the ambiguity zone of every threshold of the default
\* rules, and the decision for it is create new group without arbitration.
C20_BlankArticleCreatesNew ==
    BlankDecided =>
        /\ \A k \in 1..Len(s_out.similarities) :
              /\ s_out.similarities[k].entity_similarity = 0
              /\ s_out.similarities[k].company_similarity = 0
              /\ s_out.similarities[k].cve_similarity = 0
              /\ s_out.similarities[k].core_entity_bonus = 0
              /\ s_out.similarities[k].composite_score <= BlankScoreCap
        /\ \A k \in 1..Len(s_out.group_scores) :
              s_out.group_scores[k].score <
                  s_out.group_scores[k].dynamic_threshold - AMBIGUITY_ZONE_BELOW_THRESHOLD
        /\ s_out.result.decision = "create_new"
        /\ s_out.result.final_group_id = 0
        /\ ~s_out.result.llm_check_triggered

\* a blank article with an event and a source the group has, published in
\* the hour of the group's latest member, reaches the cap and a new group is
\* decided although the reply names the group
C20_Witness ==
    /\ BlankDecided
    /\ s_in.reply = <<"1">>
    /\ \E k \in 1..Len(s_out.similarities) :
          s_out.similarities[k].composite_score = BlankScoreCap
    /\ s_out.result.decision = "create_new"

(***************************************************************************)
(* The state shared by the harnesses below: an empty store, an idle        *)
(* pipeline and no decision harness.                                       *)
(***************************************************************************)
InitIdle ==
    /\ groups = << >>
    /\ memberships = {}
    /\ nextGroupId = 1
    /\ articles = {}
    /\ empty_content = {}
    /\ InitExt
    /\ phase = "idle"
    /\ cache = <<>>
    /\ queue = <<>>
    /\ last = NoResult
    /\ merge_list = <<>>
    /\ mi = 1
    /\ mj = 2
    /\ processed_group_ids = {}
    /\ merged_pairs_count = 0
    /\ merge_errors = 0
    /\ merged_log = <<>>
    /\ d_in = EmptyHarness
    /\ d_out = EmptyHarness

(***************************************************************************)
(* The temporal adjustment over pairs of publication instants (hours).     *)
(***************************************************************************)
\* the latest hour a publication instant takes; gaps reach past twice the
\* penalty horizon, where the penalty factor is capped
MaxHour == 340

InitTemporal ==
    /\ InitIdle
    /\ s_in \in [ published_date : 0..MaxHour, latest_published_date : 0..MaxHour ]
    /\ s_out = EmptyHarness

\* the "Temporal Analysis" block of calculate_article_to_group_similarity
TemporalStep ==
    /\ s_out = EmptyHarness
    /\ s_out' = [ kind |-> "temporal",
                  hours_diff |-> Abs(s_in.published_date - s_in.latest_published_date),
                  temporal_adjustment |-> TemporalAdjustment(s_in, s_in) ]
    /\ UNCHANGED <<storeVars, phase, groupVars, mergeVars, extVars, d_in, d_out, s_in>>

NextTemporal == TemporalStep

SpecTemporal == InitTemporal /\ [][NextTemporal]_vars

\* C21: the temporal adjustment is bounded by 0.05 in absolute value for every
\* pair of publication instants: it lies in [0, 0.05] when the gap is at most
\* 48 hours, is 0 when the gap is over 48 and at most 168 hours, and lies in
\* [-0.03, 0) when the gap exceeds 168 hours.
C21_TemporalBounds ==
    (s_out # EmptyHarness /\ s_out.kind = "temporal") =>
        LET t == s_out.temporal_adjustment
            h == s_out.hours_diff
        IN /\ 0 - 500 <= t /\ t <= 500
           /\ h <= 48 => (0 <= t /\ t <= 500)
           /\ (48 < h /\ h <= 168) => t = 0
           /\ h > 168 => (0 - 300 <= t /\ t < 0)

\* a gap of more than two weeks gets the full penalty, a gap of zero the full
\* bonus
C21_Witness ==
    /\ s_out # EmptyHarness /\ s_out.kind = "temporal"
    /\ s_out.hours_diff > 2 * TIME_PENALTY_HOURS
    /\ s_out.temporal_adjustment = 0 - TIME_PENALTY_MAX

(***************************************************************************)
(* Order of the grouping loop and growth of the comparison list.           *)
(***************************************************************************)
\* rows still to be iterated are in newest-first publication order
QueueNewestFirst ==
    \A i, j \in 1..Len(queue) : i < j => Published(queue[i]) >= Published(queue[j])

CacheGroupIds(cch) == [ k \in 1..Len(cch) |-> cch[k].group_id ]

\* the comparison list after an iteration holds the groups it held before, in
\* the same places
CacheKept ==
    /\ Len(cache') >= Len(cache)
    /\ SubSeq(CacheGroupIds(cache'), 1, Len(cache)) = CacheGroupIds(cache)

\* C22: within one grouping run the ungrouped articles are processed one at a
\* time in newest-first publication order, and a group created while
\* processing one article is in the candidate set of every article processed
\* later in the same run, so a later (older) article can be attached to it.
C22_NewestFirstGrowingCandidates ==
    /\ [](phase = "grouping" => QueueNewestFirst)
    /\ [][(phase = "grouping" /\ queue' # queue) =>
            /\ phase' = "grouping"
            /\ queue' = Tail(queue)
            /\ last'.article_id = Head(queue)
            /\ CacheKept
            /\ last'.status = "created_new" =>
                  /\ Len(cache') = Len(cache) + 1
                  /\ cache'[Len(cache')].group_id = last'.group_id
                  /\ cache'[Len(cache')].article_ids = <<last'.article_id>>
            /\ last'.status = "added_to_existing" =>
                  \E k \in 1..Len(cache) : cache[k].group_id = last'.group_id]_vars

\* the oldest article of the run has just been attached to the only group, which
\* the newest article of the run created
C22_Witness ==
    /\ phase = "grouping"
    /\ queue = <<>>
    /\ nextGroupId = 2
    /\ last.status = "added_to_existing"
    /\ Len(cache) = 1
    /\ cache[1].group_id = last.group_id
    /\ cache[1].sig_members = {cache[1].article_ids[1]}
    /\ cache[1].article_ids[Len(cache[1].article_ids)] = last.article_id
    /\ Published(last.article_id) < Published(cache[1].article_ids[1])

(***************************************************************************)
(* A failure of setup_database in a run of the orchestrator.               *)
(***************************************************************************)
LastRunFailedSetup == orch_log # <<>> /\ orch_log[Len(orch_log)].fault = "setup"

\* C23: a schema-setup failure is fatal for the orchestrator: the run is
\* aborted before any scraper or analysis phase executes, and the orchestrator
\* process terminates (with a non-zero exit code) instead of continuing to
\* schedule ticks.
C23_SetupFailureFatal ==
    LastRunFailedSetup =>
        /\ ~orch_log[Len(orch_log)].scrapers
        /\ ~orch_log[Len(orch_log)].pipeline
        /\ orch_pc = "stopped"

(***************************************************************************)
(* The write primitives and the connection they work on.  A call is the    *)
(* sequence of operations it performs on one connection: the caller's when *)
(* a cursor is passed, its own otherwise.                                  *)
(***************************************************************************)
WritePrimitives == {"_execute_write", "insert_entity", "add_article_to_group"}

\* what the SELECT of the primitive finds: nothing, the row asked for (the
\* entity, the membership in the same group), or a membership in another group
Findings(primitive) ==
    CASE primitive = "_execute_write" -> {"n/a"}
      [] primitive = "insert_entity" -> {"absent", "same"}
      [] primitive = "add_article_to_group" -> {"absent", "same", "other"}

\* the statements of the try block, in order
Statements(primitive, finding) ==
    CASE primitive = "_execute_write" -> <<"write", "commit">>
      [] primitive = "insert_entity" -> <<"select", "write", "commit">>
      [] primitive = "add_article_to_group" /\ finding = "same" -> <<"select", "close">>
      [] primitive = "add_article_to_group" /\ finding = "other" ->
             <<"select", "write", "write", "commit">>
      [] OTHER -> <<"select", "write", "commit">>

\* variant: commit, rollback and close without the conn_managed_here test
IsPerformed_Unguarded(op, conn_managed_here) == TRUE

\* "if conn_managed_here and conn:" in front of every commit, rollback and close
IsPerformed(op, conn_managed_here) == op \in {"select", "write"} \/ conn_managed_here

FailedOp(op) == <<op, "failed">>
DoneOp(op) == <<op, "done">>

\* the try block: the statements run in order until one raises sqlite3.Error
RECURSIVE RunStatements(_, _, _, _, _)
RunStatements(ops, k, fail_at, conn_managed_here, evs) ==
    IF k > Len(ops) THEN [events |-> evs, failed |-> FALSE]
    ELSE IF ~IsPerformed(ops[k], conn_managed_here)
    THEN RunStatements(ops, k + 1, fail_at, conn_managed_here, evs)
    ELSE IF k = fail_at /\ ops[k] # "close"
    THEN [events |-> Append(evs, FailedOp(ops[k])), failed |-> TRUE]
    ELSE RunStatements(ops, k + 1, fail_at, conn_managed_here, Append(evs, DoneOp(ops[k])))

\* what the caller gets when the primitive fails
FailureResult(primitive) ==
    CASE primitive = "_execute_write" -> "raised"
      [] primitive = "insert_entity" -> "None"
      [] OTHER -> "False"

\* one call: connect when no cursor is passed, the try block, the except
\* block (rollback), the finally block (close)
CallPrimitive(primitive, cursor, finding, fail_at) ==
    LET conn_managed_here == cursor = "none"
        opened == IF conn_managed_here THEN <<DoneOp("connect")>> ELSE <<>>
        body == RunStatements(Statements(primitive, finding), 1, fail_at,
                              conn_managed_here, opened)
        handled == IF body.failed /\ IsPerformed("rollback", conn_managed_here)
                   THEN Append(body.events, DoneOp("rollback")) ELSE body.events
        final == IF IsPerformed("close", conn_managed_here)
                 THEN Append(handled, DoneOp("close")) ELSE handled
    IN [ kind |-> "write",
         connection |-> IF conn_managed_here THEN "own" ELSE "caller",
         events |-> final,
         result |-> IF body.failed THEN FailureResult(primitive) ELSE "ok" ]

\* the statement that raises (0: none) and whether the error is "database is locked"
WriteInputs ==
    UNION { [ primitive : {p}, cursor : {"none", "caller"}, finding : Findings(p),
              fail_at : 0..4, locked : BOOLEAN ] : p \in WritePrimitives }

InitWrite ==
    /\ InitIdle
    /\ s_in \in WriteInputs
    /\ s_out = EmptyHarness

WriteStep ==
    /\ s_out = EmptyHarness
    /\ s_out' = CallPrimitive(s_in.primitive, s_in.cursor, s_in.finding, s_in.fail_at)
    /\ UNCHANGED <<storeVars, phase, groupVars, mergeVars, extVars, d_in, d_out, s_in>>

NextWrite == WriteStep

SpecWrite == InitWrite /\ [][NextWrite]_vars

WriteDone == s_out # EmptyHarness /\ s_out.kind = "write"

EventIndexes(op, how) ==
    { k \in 1..Len(s_out.events) : s_out.events[k] = <<op, how>> }

\* C24: when a store write hits a busy/locked database, the write is retried
\* once after a short delay; if it is still locked, the current unit of work is
\* aborted without partial effect and processing continues with the next unit.
C24_LockedWriteRetried ==
    (WriteDone /\ s_in.locked) =>
        \A k \in EventIndexes("write", "failed") :
            \E j \in (k + 1)..Len(s_out.events) : s_out.events[j][1] = "write"

\* C28: a write primitive called with a caller-owned cursor performs its write
\* on that cursor and never commits, rolls back or closes the caller's
\* transaction; called without one, it opens its own connection, commits on
\* success, rolls back on error, and closes the connection in both cases.
C28_CallerOwnsTransaction ==
    WriteDone =>
        /\ s_in.cursor = "caller" =>
              /\ s_out.connection = "caller"
              /\ \A k \in 1..Len(s_out.events) : s_out.events[k][1] \in {"select", "write"}
        /\ s_in.cursor = "none" =>
              /\ s_out.connection = "own"
              /\ s_out.events[1] = DoneOp("connect")
              /\ s_out.events[Len(s_out.events)] = DoneOp("close")
              /\ (s_out.result = "ok" /\ EventIndexes("write", "done") # {}) =>
                    /\ EventIndexes("rollback", "done") = {}
                    /\ \E c \in EventIndexes("commit", "done") :
                          \A w \in EventIndexes("write", "done") : w < c
              /\ s_out.result # "ok" =>
                    /\ EventIndexes("commit", "done") = {}
                    /\ EventIndexes("rollback", "done") # {}

\* add_article_to_group moved an article on the caller's cursor
C28_Witness ==
    /\ WriteDone
    /\ s_in.primitive = "add_article_to_group"
    /\ s_in.cursor = "caller"
    /\ s_out.result = "ok"
    /\ s_out.events = <<DoneOp("select"), DoneOp("write"), DoneOp("write")>>

(***************************************************************************)
(* One run of run_scrapers_and_analysis, step by step: the scraper pool,   *)
(* the migrations, the phases of run_full_pipeline_headless.               *)
(***************************************************************************)
\* scraper modules in the list "scrapers" (RegisterScraper is one more task)
NumScraperModules == 5

MAX_POOL_WORKERS == 5

ScraperTasks == 1..(NumScraperModules + 1)

\* variant: a pool as wide as the task list
max_workers_unbounded(n) == n + 1

\* max_workers = min(5, len(scrapers) + 1)
max_workers(n) == Min2(MAX_POOL_WORKERS, n + 1)

TickUnchanged ==
    UNCHANGED <<storeVars, phase, groupVars, mergeVars, harnessVars,
                entityVars, enrichVars, trendVars, orch_pc, orch_log, orch_stop,
                floorVars>>

\* run_scrapers_and_analysis is called
TickStart ==
    /\ tick_pc = "idle"
    /\ tick_pc' = "setup"
    /\ UNCHANGED <<scr_started, scr_running>>
    /\ TickUnchanged

\* setup_database and verify_table_exists: a failure returns from the run
SetupDone ==
    /\ tick_pc = "setup"
    /\ \E ok \in BOOLEAN : tick_pc' = IF ok THEN "scraping" ELSE "idle"
    /\ scr_started' = 0
    /\ scr_running' = {}
    /\ TickUnchanged

\* a free worker of the pool takes the next submitted task
ScraperStart ==
    /\ tick_pc = "scraping"
    /\ scr_started < NumScraperModules + 1
    /\ Cardinality(scr_running) < max_workers(NumScraperModules)
    /\ scr_started' = scr_started + 1
    /\ scr_running' = scr_running \cup {scr_started + 1}
    /\ UNCHANGED tick_pc
    /\ TickUnchanged

\* a scraper task ends (its exception is logged inside the task)
ScraperFinish ==
    /\ tick_pc = "scraping"
    /\ \E t \in scr_running : scr_running' = scr_running \ {t}
    /\ UNCHANGED <<tick_pc, scr_started>>
    /\ TickUnchanged

\* as_completed has yielded every future and the with block is left
ScrapersJoined ==
    /\ tick_pc = "scraping"
    /\ scr_started = NumScraperModules + 1
    /\ scr_running = {}
    /\ tick_pc' = "migrating"
    /\ UNCHANGED <<scr_started, scr_running>>
    /\ TickUnchanged

\* the two migrations, then the API key test: without a key the run ends
MigrationsDone ==
    /\ tick_pc = "migrating"
    /\ \E api_key \in BOOLEAN : tick_pc' = IF api_key THEN "enrichment" ELSE "idle"
    /\ UNCHANGED <<scr_started, scr_running>>
    /\ TickUnchanged

\* a phase of run_full_pipeline_headless returns; phases 1 and 2 stop the
\* pipeline when one of their log lines contains "Error:"
PhaseReturns ==
    /\ tick_pc \in {"enrichment", "grouping", "merging", "trends"}
    /\ \E error_line \in BOOLEAN :
         tick_pc' = CASE tick_pc = "enrichment" -> IF error_line THEN "idle" ELSE "grouping"
                      [] tick_pc = "grouping" -> IF error_line THEN "idle" ELSE "merging"
                      [] tick_pc = "merging" -> "trends"
                      [] OTHER -> "idle"
    /\ UNCHANGED <<scr_started, scr_running>>
    /\ TickUnchanged

InitTick ==
    /\ InitIdle
    /\ s_in = EmptyHarness
    /\ s_out = EmptyHarness

NextTick ==
    \/ TickStart \/ SetupDone \/ ScraperStart \/ ScraperFinish \/ ScrapersJoined
    \/ MigrationsDone \/ PhaseReturns

SpecTick == InitTick /\ [][NextTick]_vars

AnalysisPhases == <<"enrichment", "grouping", "merging", "trends">>

PhaseIndex(pc) == CHOOSE k \in 1..Len(AnalysisPhases) : AnalysisPhases[k] = pc

InAnalysis(pc) == \E k \in 1..Len(AnalysisPhases) : AnalysisPhases[k] = pc

\* C25: within one tick no analysis phase starts before every scraper task has
\* finished, at most 5 scrapers run at the same time, and the analysis phases
\* run strictly in the order enrichment, grouping, merging, trend synthesis,
\* each starting only after the previous one has returned.
C25_TickOrder ==
    /\ [](Cardinality(scr_running) <= 5)
    /\ [](InAnalysis(tick_pc) =>
             (scr_running = {} /\ scr_started = NumScraperModules + 1))
    /\ [][(InAnalysis(tick_pc') /\ tick_pc' # tick_pc) =>
             IF InAnalysis(tick_pc)
             THEN PhaseIndex(tick_pc') = PhaseIndex(tick_pc) + 1
             ELSE tick_pc = "migrating" /\ PhaseIndex(tick_pc') = 1]_vars

\* the pool is full with a task still waiting
C25_Witness ==
    /\ tick_pc = "scraping"
    /\ Cardinality(scr_running) = MAX_POOL_WORKERS
    /\ scr_started < NumScraperModules + 1

(***************************************************************************)
(* The dynamic threshold over categories, member counts and base values.   *)
(***************************************************************************)
\* the largest cached member count; the last breakpoint is 10
MaxGroupSize == 12

ThresholdCategories ==
    { "Cybersecurity & Data Privacy", "Artificial Intelligence & Machine Learning",
      "Other", "Science & Environment" }

\* values of threshold_rules["base"]: every multiple of 0.05
ThresholdBases == { b \in 0..SCALE : b % 500 = 0 }

InitThreshold ==
    /\ InitIdle
    /\ s_in \in [ category : ThresholdCategories, size : 0..MaxGroupSize, base : ThresholdBases ]
    /\ s_out = EmptyHarness

\* the call in the comparison loop of process_single_ungrouped_article
ThresholdStep ==
    /\ s_out = EmptyHarness
    /\ s_out' = [ kind |-> "threshold",
                  value |-> _calculate_dynamic_threshold(s_in.category, s_in.size, s_in.base) ]
    /\ UNCHANGED <<storeVars, phase, groupVars, mergeVars, extVars, d_in, d_out, s_in>>

NextThreshold == ThresholdStep

SpecThreshold == InitThreshold /\ [][NextThreshold]_vars

\* C26: the dynamic threshold of a group is clamp(base + category offset + size
\* offset, 0.10, 0.90), where the size offset is taken from the member count
\* n: +0.05 for n <= 1, 0 for 2 <= n <= 5, -0.03 for 6 <= n <= 10, -0.05 for
\* n > 10; the result is always within [0.10, 0.90].
C26_ThresholdFormula ==
    (s_out # EmptyHarness /\ s_out.kind = "threshold") =>
        LET n == s_in.size
            size_offset == IF n <= 1 THEN 500
                           ELSE IF n <= 5 THEN 0
                           ELSE IF n <= 10 THEN 0 - 300
                           ELSE 0 - 500
            category_offset ==
                IF s_in.category = "Cybersecurity & Data Privacy" THEN 500
                ELSE IF s_in.category = "Artificial Intelligence & Machine Learning" THEN 300
                ELSE IF s_in.category = "Other" THEN 0 - 300
                ELSE 0
            sum == s_in.base + category_offset + size_offset
        IN /\ s_out.value = (IF sum < 1000 THEN 1000 ELSE IF sum > 9000 THEN 9000 ELSE sum)
           /\ 1000 <= s_out.value /\ s_out.value <= 9000

\* a group of exactly ten members under the default base, not clamped
C26_Witness ==
    /\ s_out # EmptyHarness /\ s_out.kind = "threshold"
    /\ s_in.size = 10
    /\ s_in.base = DEFAULT_SIMILARITY_THRESHOLD
    /\ s_in.category = "Other"
    /\ s_out.value = 3400

(***************************************************************************)
(* Frame of the attach branch on the comparison list.                      *)
(***************************************************************************)
AttachSucceeded == last'.status = "added_to_existing"

\* the attach branch returned its error result
AttachFailed ==
    last'.status = "error" /\ ~last'.db_ok /\ last'.create_reply = "n/a"

\* C27: a successful attach appends exactly the attached article id to the
\* cached member list of the target group and leaves that group's cached
\* signature and every other cache entry unchanged; a failed attach leaves the
\* whole cache unchanged.
C27_AttachCacheFrame ==
    [][(phase = "grouping" /\ queue' # queue) =>
         /\ AttachSucceeded =>
               \E k \in 1..Len(cache) :
                  /\ cache[k].group_id = last'.group_id
                  /\ cache' = [cache EXCEPT ![k].article_ids = Append(@, last'.article_id)]
         /\ AttachFailed => cache' = cache]_vars

\* an article was attached to one of two cached groups, whose signature is
\* still the one of its first member
C27_Witness ==
    /\ phase = "grouping"
    /\ last.status = "added_to_existing"
    /\ Len(cache) = 2
    /\ \E k \in 1..2 :
          /\ cache[k].group_id = last.group_id
          /\ Len(cache[k].article_ids) = 2
          /\ cache[k].article_ids[2] = last.article_id
          /\ cache[k].sig_members = {cache[k].article_ids[1]}

(***************************************************************************)
(* insert_entity on an entity_profiles table of up to MaxProfiles rows.    *)
(***************************************************************************)
MaxProfiles == 2

UpsertNames == {"acme", "zeta"}
UpsertTypes == {"organization", "person"}

\* stored descriptions: NULL, the empty string, a text
ProfileRows ==
    [ entity_name : UpsertNames, entity_type : UpsertTypes,
      description : {NullDescription, "", "d1"}, mention_count : {1, 3} ]

\* tables that satisfy UNIQUE(entity_name, entity_type)
ProfileTables ==
    { t \in UNION { [1..n -> ProfileRows] : n \in 0..MaxProfiles } :
        \A i, j \in DOMAIN t :
            (t[i].entity_name = t[j].entity_name /\ t[i].entity_type = t[j].entity_type)
                => i = j }

\* the arguments of a call: the description is None, empty or a text
UpsertCalls ==
    [ entity_name : UpsertNames, entity_type : UpsertTypes,
      description : {NullDescription, "", "d1", "d2"} ]

InitUpsert ==
    /\ groups = << >>
    /\ memberships = {}
    /\ nextGroupId = 1
    /\ articles = {}
    /\ empty_content = {}
    /\ entity_profiles \in ProfileTables
    /\ nextEntityId = Len(entity_profiles) + 1
    /\ article_entities = EmptyBag
    /\ InitEnrichIdle
    /\ InitTrendTables
    /\ InitTrendIdle
    /\ InitOrchestrator
    /\ InitFloorIdle
    /\ phase = "idle"
    /\ cache = <<>>
    /\ queue = <<>>
    /\ last = NoResult
    /\ merge_list = <<>>
    /\ mi = 1
    /\ mj = 2
    /\ processed_group_ids = {}
    /\ merged_pairs_count = 0
    /\ merge_errors = 0
    /\ merged_log = <<>>
    /\ d_in = EmptyHarness
    /\ d_out = EmptyHarness
    /\ s_in \in UpsertCalls
    /\ s_out = EmptyHarness

\* one committed call of insert_entity
UpsertStep ==
    /\ s_out = EmptyHarness
    /\ \E ins \in { insert_entity(entity_profiles, s_in.entity_name, s_in.entity_type,
                                   s_in.description) } :
         /\ entity_profiles' = ins.profiles
         /\ nextEntityId' = Len(ins.profiles) + 1
         /\ s_out' = [ kind |-> "upsert", entity_id |-> ins.entity_id,
                       before |-> entity_profiles ]
    /\ UNCHANGED <<storeVars, phase, groupVars, mergeVars, d_in, d_out, s_in,
                   article_entities, enrichVars, trendVars, orchVars>>

NextUpsert == UpsertStep

SpecUpsert == InitUpsert /\ [][NextUpsert]_vars

UpsertDone == s_out # EmptyHarness /\ s_out.kind = "upsert"

\* the row of the table "before" with the (name, type) of the call
UpsertHit == FindEntity(s_out.before, s_in.entity_name, s_in.entity_type)

WasEmpty(description) == description \in {NullDescription, ""}

\* C29: insert_entity called for a (name, type) that already exists returns
\* the existing entity id, creates no new row, increments the mention count
\* by exactly one, and changes the stored description only if it was
\* previously empty; called for a new (name, type) it inserts one row with
\* mention count 1.
C29_UpsertEntity ==
    UpsertDone =>
        /\ \A i \in UpsertHit :
              /\ s_out.entity_id = i
              /\ Len(entity_profiles) = Len(s_out.before)
              /\ entity_profiles[i].mention_count = s_out.before[i].mention_count + 1
              /\ ~WasEmpty(s_out.before[i].description) =>
                    entity_profiles[i].description = s_out.before[i].description
              /\ \A j \in DOMAIN s_out.before : j # i => entity_profiles[j] = s_out.before[j]
        /\ UpsertHit = {} =>
              /\ Len(entity_profiles) = Len(s_out.before) + 1
              /\ s_out.entity_id = Len(entity_profiles)
              /\ entity_profiles[s_out.entity_id].entity_name = s_in.entity_name
              /\ entity_profiles[s_out.entity_id].entity_type = s_in.entity_type
              /\ entity_profiles[s_out.entity_id].mention_count = 1
              /\ \A j \in DOMAIN s_out.before : entity_profiles[j] = s_out.before[j]


(***************************************************************************)
(* Mention counters against the article-entity links written by the        *)
(* enrichment loop (insert_entity followed by link_entity_to_article).     *)
(***************************************************************************)
MentionCount(profiles, id) ==
    IF id \in DOMAIN profiles THEN profiles[id].mention_count ELSE 0

\* the (article, entity) keys of the entity that the step added
NewLinks(before, after, id) ==
    { k \in RowKeys(after) \ RowKeys(before) : k[2] = id }

\* C30 as stated: an entity's mention counter never decreases, and in every
\* step of the enrichment it grows by exactly the number of article-entity
\* links newly created for that entity (so a renewed encounter for an article
\* already linked, which creates no link, leaves it unchanged).
C30_MentionCountPerNewLink ==
    [][ \A id \in DOMAIN entity_profiles' :
          /\ MentionCount(entity_profiles', id) >= MentionCount(entity_profiles, id)
          /\ MentionCount(entity_profiles', id) - MentionCount(entity_profiles, id)
               = Cardinality(NewLinks(article_entities, article_entities', id))
      ]_vars


(***************************************************************************)
(* The entity type that the enrichment loop and save_trends hand to        *)
(* insert_entity.  A type is a sequence of characters, as the replies are. *)
(***************************************************************************)
MaxTypeCalls == 3

TypeNames == {"acme", "zeta"}

\* the default of entity.get("type", "unknown")
UnknownType == <<"u", "n", "k", "n", "o", "w", "n">>

\* types a reply carries: one of the prompt's list, the same capitalised, one
\* outside the list, and the word other
ReportedTypes ==
    { <<"p", "e", "r", "s", "o", "n">>, <<"P", "e", "r", "s", "o", "n">>,
      <<"m", "a", "l", "w", "a", "r", "e">>, <<"o", "t", "h", "e", "r">> }

\* one entity of a reply, seen by the enrichment loop ("enricher", which
\* passes a description) or by save_trends ("trend", which passes none)
TypeCalls ==
    [ writer : {"enricher", "trend"}, entity_name : TypeNames,
      has_type : BOOLEAN, type : ReportedTypes ]

\* entity.get("type", "unknown").lower()
ReportedEntityType(entity) ==
    Lower(IF entity.has_type THEN entity.type ELSE UnknownType)

InitType ==
    /\ InitIdle
    /\ s_in = EmptyHarness
    /\ s_out = [kind |-> "types", calls |-> 0]

\* one entity of a reply is stored
TypeStep ==
    /\ s_out.calls < MaxTypeCalls
    /\ \E entity \in TypeCalls :
         \E ins \in { insert_entity(entity_profiles, entity.entity_name,
                                    ReportedEntityType(entity),
                                    IF entity.writer = "enricher" THEN ""
                                    ELSE NullDescription) } :
           /\ entity_profiles' = ins.profiles
           /\ nextEntityId' = Len(ins.profiles) + 1
           /\ s_in' = entity
    /\ s_out' = [s_out EXCEPT !.calls = @ + 1]
    /\ UNCHANGED <<storeVars, phase, groupVars, mergeVars, d_in, d_out,
                   article_entities, enrichVars, trendVars, orchVars>>

NextType == TypeStep

SpecType == InitType /\ [][NextType]_vars

\* the types the entity model allows
CanonicalEntityTypes ==
    { <<"p", "e", "r", "s", "o", "n">>,
      <<"o", "r", "g", "a", "n", "i", "z", "a", "t", "i", "o", "n">>,
      <<"t", "e", "c", "h", "n", "o", "l", "o", "g", "y">>,
      <<"p", "r", "o", "d", "u", "c", "t">>, <<"p", "l", "a", "c", "e">>,
      <<"c", "o", "n", "c", "e", "p", "t">>, <<"e", "v", "e", "n", "t">>,
      <<"o", "t", "h", "e", "r">> }

\* C31 as stated: every entity row persisted by the enrichment loop or by
\* save_trends has a type in {person, organization, technology, product,
\* place, concept, event, other}; a type outside the set, or a missing type,
\* is stored as other.
C31_EntityTypesCanonical ==
    \A i \in DOMAIN entity_profiles :
        entity_profiles[i].entity_type \in CanonicalEntityTypes


(***************************************************************************)
(* chunk_summaries.  The dictionary is the sequence of its items in        *)
(* insertion order; an item is [length, words]: the number of characters   *)
(* of the text and the number of words text.split() finds.  A batch is the *)
(* sequence of the positions of its items in the dictionary.               *)
(***************************************************************************)
MaxChunkItems == 3

\* int(len(text.split()) * 1.3)
approximate_tokens(words) == (words * 13) \div 10

\* texts: a text of n characters holds at most (n + 1) / 2 words
ChunkTexts ==
    { t \in [length : {1, 5, 9}, words : 0..5] : 2 * t.words <= t.length + 1 }

ChunkBudgets == {3, 5}

ChunkInputs ==
    [ kind : {"chunk"}, n : 0..MaxChunkItems,
      texts : [1..MaxChunkItems -> ChunkTexts], max_token_chunk : ChunkBudgets ]

\* sorted(summaries_dict.items(), key=lambda x: len(x[1])): a stable sort
RECURSIVE SortByLength(_, _)
SortByLength(n, texts) ==
    IF n = 0 THEN <<>>
    ELSE LET rest == SortByLength(n - 1, texts) IN
         \* the n-th item goes after every item that is not longer
         LET before == SelectSeq(rest, LAMBDA j : texts[j].length <= texts[n].length)
             after  == SelectSeq(rest, LAMBDA j : texts[j].length > texts[n].length)
         IN before \o <<n>> \o after

\* variant: the accumulated chunk is never yielded for want of room
MustYield_Never(current_tokens, tokens_for_article, max_token_chunk) == FALSE

\* current_tokens + tokens_for_article > max_token_chunk
MustYield(current_tokens, tokens_for_article, max_token_chunk) ==
    current_tokens + tokens_for_article > max_token_chunk

\* the loop over sorted_items and the final yield
RECURSIVE ChunkLoop(_, _, _, _, _, _)
ChunkLoop(sorted_items, texts, max_token_chunk, current_chunk, current_tokens, out) ==
    IF sorted_items = <<>>
    THEN IF current_chunk # <<>> THEN Append(out, current_chunk) ELSE out
    ELSE LET link == Head(sorted_items)
             tokens_for_article == approximate_tokens(texts[link].words)
             flushed == IF current_chunk # <<>> THEN Append(out, current_chunk) ELSE out
         IN IF tokens_for_article > max_token_chunk
            THEN ChunkLoop(Tail(sorted_items), texts, max_token_chunk,
                           <<>>, 0, Append(flushed, <<link>>))
            ELSE IF MustYield(current_tokens, tokens_for_article, max_token_chunk)
                 THEN ChunkLoop(Tail(sorted_items), texts, max_token_chunk,
                                <<link>>, tokens_for_article, flushed)
                 ELSE ChunkLoop(Tail(sorted_items), texts, max_token_chunk,
                                Append(current_chunk, link),
                                current_tokens + tokens_for_article, out)

chunk_summaries(n, texts, max_token_chunk) ==
    ChunkLoop(SortByLength(n, texts), texts, max_token_chunk, <<>>, 0, <<>>)

InitChunk ==
    /\ InitIdle
    /\ s_in \in ChunkInputs
    /\ s_out = EmptyHarness

\* list(chunk_summaries(summaries_dict, max_token_chunk))
ChunkStep ==
    /\ s_in # EmptyHarness
    /\ s_in.kind = "chunk"
    /\ s_out = EmptyHarness
    /\ s_out' = [ kind |-> "chunks",
                  batches |-> chunk_summaries(s_in.n, s_in.texts, s_in.max_token_chunk) ]
    /\ UNCHANGED <<storeVars, phase, groupVars, mergeVars, d_in, d_out, s_in, extVars>>

NextChunk == ChunkStep

SpecChunk == InitChunk /\ [][NextChunk]_vars

ChunkDone == s_out # EmptyHarness /\ s_out.kind = "chunks"

BatchTokens(batch) ==
    SumSeq([ k \in 1..Len(batch) |-> approximate_tokens(s_in.texts[batch[k]].words) ])

Oversized(link) == approximate_tokens(s_in.texts[link].words) > s_in.max_token_chunk

\* C32: chunk_summaries partitions its input: every article appears in
\* exactly one batch, no batch is empty, the articles are packed in
\* shortest-first order, every batch holding more than one article has a
\* total estimated token count not exceeding the budget, and an article whose
\* own estimate exceeds the budget is alone in its batch.
C32_ChunksPartition ==
    ChunkDone =>
        LET batches == s_out.batches
            packed  == Concat(batches)
        IN /\ Len(packed) = s_in.n
           /\ \A link \in 1..s_in.n :
                 Cardinality({ b \in DOMAIN batches :
                                 \E k \in DOMAIN batches[b] : batches[b][k] = link }) = 1
           /\ \A b \in DOMAIN batches : batches[b] # <<>>
           /\ \A j, k \in DOMAIN packed :
                 j < k => s_in.texts[packed[j]].length <= s_in.texts[packed[k]].length
           /\ \A b \in DOMAIN batches :
                 Len(batches[b]) > 1 => BatchTokens(batches[b]) <= s_in.max_token_chunk
           /\ \A b \in DOMAIN batches : \A k \in DOMAIN batches[b] :
                 Oversized(batches[b][k]) => Len(batches[b]) = 1

\* three articles in three batches: two that do not fit the budget
\* together and an oversized one between them in the order of lengths
C32_Witness ==
    /\ ChunkDone
    /\ s_in.n = 3
    /\ Len(s_out.batches) = 3
    /\ Oversized(s_out.batches[2][1])
    /\ ~Oversized(s_out.batches[1][1])
    /\ ~Oversized(s_out.batches[3][1])


(***************************************************************************)
(* _calculate_group_similarity.  The directional composites and the rating *)
(* are in units of 1 / SCALE; the result is in units of                    *)
(* 1 / GroupSimUnit, in which the halving and the tenths are exact.        *)
(***************************************************************************)
GroupSimUnit == 20 * SCALE

\* composite_score of calculate_article_to_group_similarity (clamped to [0, 1])
DirectionalComposites == {0, 3000, 5500, SCALE}

\* what call_gpt_api returns for the rating prompt: nothing, a text float()
\* rejects, or a number
RatingReplies ==
    [ kind : {"none", "text"}, value : {0} ]
      \cup [ kind : {"number"}, value : {0 - SCALE, 0, 5000, 8000, SCALE, 2 * SCALE} ]

GroupSimInputs ==
    [ kind : {"groupsim"}, sim_a_b : DirectionalComposites,
      sim_b_a : DirectionalComposites,
      api_key : BOOLEAN,        \* an API key is configured
      described : BOOLEAN,      \* both groups have a non-empty description
      reply : RatingReplies ]

\* label_desc_sim: 0.0 unless the rating was asked for and float() took it
LabelDescSim(api_key, described, reply) ==
    IF api_key /\ described /\ reply.kind = "number" THEN reply.value ELSE 0

\* final_sim = (avg_sim * 0.7) + (label_desc_sim * 0.3) with
\* avg_sim = (sim_a_b + sim_b_a) / 2.0
CombineScores(sim_a_b, sim_b_a, api_key, described, reply) ==
    7 * (sim_a_b + sim_b_a) + 6 * LabelDescSim(api_key, described, reply)

_calculate_group_similarity(in) ==
    CombineScores(in.sim_a_b, in.sim_b_a, in.api_key, in.described, in.reply)

InitGroupSim ==
    /\ InitIdle
    /\ s_in \in GroupSimInputs
    /\ s_out = EmptyHarness

\* the pair is rated as (A, B) and, with the composites exchanged, as (B, A)
GroupSimStep ==
    /\ s_in # EmptyHarness
    /\ s_in.kind = "groupsim"
    /\ s_out = EmptyHarness
    /\ s_out' = [ kind |-> "groupsim",
                  a_b |-> _calculate_group_similarity(s_in),
                  b_a |-> _calculate_group_similarity(
                              [s_in EXCEPT !.sim_a_b = s_in.sim_b_a,
                                           !.sim_b_a = s_in.sim_a_b]) ]
    /\ UNCHANGED <<storeVars, phase, groupVars, mergeVars, d_in, d_out, s_in, extVars>>

NextGroupSim == GroupSimStep

SpecGroupSim == InitGroupSim /\ [][NextGroupSim]_vars

GroupSimDone == s_out # EmptyHarness /\ s_out.kind = "groupsim"

\* float() produced a rating
RatingObtained == s_in.api_key /\ s_in.described /\ s_in.reply.kind = "number"

\* C33 as stated: group-to-group similarity is the average of the two
\* directional composites; with an LLM rating r it is 0.7 * average + 0.3 * r,
\* and without one it is the plain average.  For every reply the result lies
\* in [0, 1] and is the same for (A, B) and (B, A).
C33_GroupSimilarity ==
    GroupSimDone =>
        /\ RatingObtained =>
              s_out.a_b = 7 * (s_in.sim_a_b + s_in.sim_b_a) + 6 * s_in.reply.value
        /\ ~RatingObtained => s_out.a_b = 10 * (s_in.sim_a_b + s_in.sim_b_a)
        /\ s_out.a_b >= 0
        /\ s_out.a_b <= GroupSimUnit
        /\ s_out.a_b = s_out.b_a


(***************************************************************************)
(* The trends a call of ensure_minimum_trends inserts.                     *)
(***************************************************************************)
\* trend ids grow with every insert: the rows a step added
InsertedTrends(before, after) == DOMAIN after \ DOMAIN before

\* C34 as stated: every synthetic trend promoted by the floor step has a
\* label that is not the label of any trend existing when it is inserted,
\* the trends promoted earlier in the same call included, and it has at most
\* 10 linked articles and at most 5 linked entities.
C34_SyntheticTrendLabelsFresh ==
    [][ trend_last'.op = "ensure" =>
          \A id \in InsertedTrends(trending_groups, trending_groups') :
             /\ trending_groups'[id].trend_label \notin TrendLabels(trending_groups)
             /\ \A earlier \in InsertedTrends(trending_groups, trending_groups') :
                   earlier < id =>
                       trending_groups'[earlier].trend_label # trending_groups'[id].trend_label
             /\ Cardinality({ r \in trending_group_memberships' : r[2] = id })
                   <= TREND_ARTICLE_LIMIT
             /\ Cardinality({ r \in trend_entities' : r[1] = id }) <= TREND_ENTITY_LIMIT
      ]_vars

\* C35 as stated: every stored trend row references at least one article; a
\* trend whose article list is empty or holds no valid id is not stored.
C35_TrendHasArticle ==
    \A id \in DOMAIN trending_groups :
        \E r \in trending_group_memberships : r[2] = id


(***************************************************************************)
(* Concurrent calls of ensure_minimum_trends.  Each call has its own       *)
(* connection; the COUNT and the popular-groups SELECT run outside any     *)
(* transaction, the loop's first INSERT opens the write transaction and    *)
(* the commit after the loop ends it, so the loops of two calls do not     *)
(* overlap while their reads do.                                           *)
(***************************************************************************)
EmptyTrendState(tg, next, tgm, te) ==
    [ tg |-> tg, next |-> next, tgm |-> tgm, te |-> te, promoted |-> {} ]

FloorUnchanged ==
    UNCHANGED <<storeVars, phase, groupVars, mergeVars, harnessVars, entityVars,
                enrichVars, now, trend_step, trend_last, orch_pc, orch_log, orch_stop,
                tickVars>>

\* SELECT COUNT(*) FROM trending_groups and the early return
FloorCount(p) ==
    /\ floor_pc[p] = "idle"
    /\ \E current_count \in { Cardinality(DOMAIN trending_groups) } :
         IF current_count >= floor_local[p].min_count
         THEN /\ floor_pc' = [floor_pc EXCEPT ![p] = "done"]
              /\ UNCHANGED floor_local
         ELSE /\ floor_pc' = [floor_pc EXCEPT ![p] = "counted"]
              /\ floor_local' = [floor_local EXCEPT
                                   ![p].needed_count = floor_local[p].min_count - current_count]
    /\ UNCHANGED trendTables
    /\ FloorUnchanged

\* the popular-groups query and groups_to_use = head(needed_count)
FloorSelect(p) ==
    /\ floor_pc[p] = "counted"
    /\ \E groups_to_use \in
            { Take(PopularGroupsQuery(groups, articles, memberships, trending_groups, now,
                                      floor_local[p].needed_count * 2),
                   floor_local[p].needed_count) } :
         /\ floor_pc' = [floor_pc EXCEPT ![p] = IF groups_to_use = <<>> THEN "done"
                                                ELSE "selected"]
         /\ floor_local' = [floor_local EXCEPT ![p].groups_to_use = groups_to_use]
    /\ UNCHANGED trendTables
    /\ FloorUnchanged

\* the loop over groups_to_use and the commit
FloorPromote(p) ==
    /\ floor_pc[p] = "selected"
    /\ \E st \in { PromoteGroups(floor_local[p].groups_to_use, groups, articles, memberships,
                                 entity_profiles, article_entities, now,
                                 EmptyTrendState(trending_groups, nextTrendId,
                                                 trending_group_memberships, trend_entities)) } :
         /\ trending_groups' = st.tg
         /\ nextTrendId' = st.next
         /\ trending_group_memberships' = st.tgm
         /\ trend_entities' = st.te
         /\ floor_local' = [floor_local EXCEPT ![p].promoted = st.promoted]
    /\ floor_pc' = [floor_pc EXCEPT ![p] = "done"]
    /\ FloorUnchanged

InitFloor ==
    /\ groups = [ g \in 1..NumTrendGroups |->
                    [ main_topic  |-> "Other",
                      group_label |-> IF g = 2 THEN "g2" ELSE IF g = 1 THEN "g1" ELSE "g3" ] ]
    /\ memberships \in { { <<a, f[a]>> : a \in Articles } :
                           f \in { h \in [Articles -> 1..NumTrendGroups] : h[1] = 1 } }
    /\ nextGroupId = NumTrendGroups + 1
    /\ articles = Articles
    /\ empty_content = {}
    /\ InitEntityTables
    /\ InitEnrichIdle
    /\ InitOrchestrator
    /\ InitTrendTables
    /\ now = TREND_WINDOW_HOURS
    /\ trend_step = 0
    /\ trend_last = NoTrendOp
    /\ floor_pc = [p \in FloorCallers |-> "idle"]
    /\ \E min_count \in 1..MaxMinTrends :
         floor_local = [p \in FloorCallers |-> [NoFloorLocal EXCEPT !.min_count = min_count]]
    /\ phase = "idle"
    /\ cache = <<>>
    /\ queue = <<>>
    /\ last = NoResult
    /\ merge_list = <<>>
    /\ mi = 1
    /\ mj = 2
    /\ processed_group_ids = {}
    /\ merged_pairs_count = 0
    /\ merge_errors = 0
    /\ merged_log = <<>>
    /\ d_in = EmptyHarness
    /\ d_out = EmptyHarness
    /\ s_in = EmptyHarness
    /\ s_out = EmptyHarness

NextFloor == \E p \in FloorCallers : FloorCount(p) \/ FloorSelect(p) \/ FloorPromote(p)

SpecFloor == InitFloor /\ [][NextFloor]_vars

\* the groups one call alone promotes from the initial store
SingleExecutionPromotes(min_count) ==
    PromoteGroups(Take(PopularGroupsQuery(groups, articles, memberships, << >>, now,
                                          min_count * 2),
                       min_count),
                  groups, articles, memberships, entity_profiles, article_entities, now,
                  EmptyTrendState(<< >>, 1, {}, {})).promoted

\* C36 as stated: for every interleaving of concurrent executions of the
\* trend floor step no group is promoted more than once, and the number of
\* synthetic trends created does not exceed the number a single execution
\* would have created.
C36_FloorPromotesOnce ==
    /\ \A p, q \in FloorCallers :
          p # q => floor_local[p].promoted \cap floor_local[q].promoted = {}
    /\ \A p \in FloorCallers :
          Cardinality(DOMAIN trending_groups)
              <= Cardinality(SingleExecutionPromotes(floor_local[p].min_count))


(***************************************************************************)
(* Progress of a grouping run, article by article: the loop of             *)
(* run_grouping_update handles every row of ungrouped_df once and nothing  *)
(* else touches the memberships before the run ends.                       *)
(***************************************************************************)
\* process_single_ungrouped_article has returned for an article with content
ArticleProcessed ==
    /\ phase = "grouping"
    /\ last.article_id # 0
    /\ last.status # "skipped"

\* the signature of the article was generated, every LLM call made for it
\* returned a reply and the database block it reached committed
ProcessedCleanly ==
    /\ ~(last.status = "error" /\ last.create_reply = "n/a" /\ last.db_ok)
    /\ last.create_reply # "no_response"
    /\ last.db_ok

\* C37 as stated: when every LLM call returns a reply and every store write
\* succeeds, every article that had content and no membership at the start
\* of the run has exactly one group membership at its end.
C37_CleanRunGroupsEveryArticle ==
    (ArticleProcessed /\ ProcessedCleanly) =>
        Cardinality(GroupsOfArticle(memberships, last.article_id)) = 1


(***************************************************************************)
(* A merge whose transaction fails.                                        *)
(***************************************************************************)
\* C38: if the database transaction of a merge fails, the store is left as
\* it was before the attempt (survivor label unchanged, no membership moved,
\* loser not deleted), the pair is not counted as merged and neither group is
\* marked as processed.
C38_FailedMergeChangesNothing ==
    [][ (merge_errors' = merge_errors + 1) =>
          /\ groups' = groups
          /\ memberships' = memberships
          /\ merged_pairs_count' = merged_pairs_count
          /\ processed_group_ids' = processed_group_ids
          /\ merged_log' = merged_log
      ]_vars

\* a pass in which the merge of group 1 with another group failed and the
\* pair (2, 3) was merged afterwards
C38_Witness ==
    /\ phase = "merging"
    /\ merge_errors = 1
    /\ merged_log = << <<2, 3>> >>
    /\ processed_group_ids = {2, 3}
    /\ 1 \in DOMAIN groups

(***************************************************************************)
(* C39: atomic creation of a group.                                        *)
(***************************************************************************)
\* group ids the step added to two_phase_article_groups
CreatedGroups == (DOMAIN groups') \ (DOMAIN groups)

\* C39: during a grouping run a group row is only ever committed together with
\* the membership of the article it was created for, the in-run cache only
\* grows by such a group, and a creation that fails (no usable reply or a
\* failing statement of the transaction) leaves groups, memberships and the
\* cache exactly as they were.
C39_CreateGroupAtomic ==
    [][ phase = "grouping" /\ queue # <<>> =>
          /\ \A g \in CreatedGroups : <<Head(queue), g>> \in memberships'
          /\ Len(cache') > Len(cache) =>
                /\ cache'[Len(cache')].group_id \in CreatedGroups
                /\ MembersOf(memberships', cache'[Len(cache')].group_id) # {}
          /\ last'.status = "error" =>
                /\ groups' = groups
                /\ memberships' = memberships
                /\ cache' = cache ]_vars

\* a creation whose transaction failed has just been processed, with groups in the store
C39_Witness ==
    /\ phase = "grouping"
    /\ last.status = "error"
    /\ last.create_reply = "json"
    /\ ~last.db_ok
    /\ DOMAIN groups # {}

(***************************************************************************)
(* C40: frame of a grouping run.                                           *)
(***************************************************************************)
\* membership rows the step added
AddedMemberships == memberships' \ memberships

\* C40: every step of a grouping run keeps all membership rows, adds rows only
\* for the article being processed, which has no membership row before the
\* step (rows are never removed in the run, so it had none when the run
\* started), and keeps every existing group row with its topic and label.
C40_GroupingRunFrame ==
    [][ phase = "grouping" =>
          /\ memberships \subseteq memberships'
          /\ \A r \in AddedMemberships :
                /\ queue # <<>>
                /\ r[1] = Head(queue)
                /\ GroupsOfArticle(memberships, r[1]) = {}
          /\ \A g \in DOMAIN groups :
                g \in DOMAIN groups' /\ groups'[g] = groups[g] ]_vars

\* a later run, after a merge pass relabelled a group, has just attached an
\* article while another article keeps the membership it had before the run
C40_Witness ==
    /\ phase = "grouping"
    /\ last.status = "added_to_existing"
    /\ \E g \in DOMAIN groups : groups[g].group_label \in {"merged_llm", "merged_fallback"}
    /\ \E a \in articles : a # last.article_id /\ GroupsOfArticle(memberships, a) # {}

====
